---- MODULE Spec2Model ----
(***************************************************************************)
(* Layout unprojection of dask-awkward: compatible, _unproject_layout and  *)
(* unproject_layout of src/dask_awkward/lib/unproject_layout.py, over      *)
(* awkward Forms (schemas) and Contents (layouts).                         *)
(***************************************************************************)
EXTENDS Integers, Sequences, FiniteSets, TLC

VARIABLES form, layout, length, pc, result, answer, again

\* The dataset a collection is opened on, what from_parquet detected in its
\* column names, and the reader function in use.
VARIABLES dataset, detected, reader

\* The state of the reconciliation of one partition.
unprojectVars == <<form, layout, length, pc, result, answer, again>>

readerVars == <<dataset, detected, reader>>

\* The arguments of a from_json call and what the call came to.
VARIABLES kwargs, outcome

jsonVars == <<kwargs, outcome>>

\* A to_parquet call: its arguments, the files under the destination, and
\* the partitions whose task has run.
VARIABLES job, files, written

writeVars == <<job, files, written>>

\* Reconciliations running side by side: one task per partition, the module
\* tables index_of and dtype_of, and the memory the allocator hands out next.
VARIABLES tasks, module, heap

concVars == <<tasks, module, heap>>

\* A DummyArrayLike, the operation applied to it, and what came back.
VARIABLES placeholder, op, ret

placeholderVars == <<placeholder, op, ret>>

\* An awkward array handed to from_awkward, the collection made of it, an
\* index given to .partitions, and the collection that selection made.
VARIABLES source, collection, selection, selected

collectionVars == <<source, collection, selection, selected>>

\* A derive_json_meta call: its arguments with the source's lines, and
\* the lines the metadata was derived from.
VARIABLES sampling, sampled

sampleVars == <<sampling, sampled>>

\* The variables of the array-side operations.
arrayVars == <<placeholderVars, collectionVars, sampleVars>>

vars == <<unprojectVars, readerVars, jsonVars, writeVars, concVars, arrayVars>>

\* ------------------------------------------------------------------ bounds
\* Largest number of rows of an input layout, and largest requested length.
MaxLen == 2

\* ------------------------------------------------------------ small helpers
Range(s) == {s[i] : i \in DOMAIN s}

CeilDiv8(n) == (n + 7) \div 8

NoParams == "none"

\* --------------------------------------------------------------- Forms
\* One record shape for every Form class; a field a class does not have
\* holds a fixed default.
MkForm(kind, parameters, contents, fields, is_tuple, valid_when, lsb_order, size, index, primitive, inner_shape) ==
    [kind |-> kind, parameters |-> parameters, contents |-> contents,
     fields |-> fields, is_tuple |-> is_tuple, valid_when |-> valid_when,
     lsb_order |-> lsb_order, size |-> size, index |-> index,
     primitive |-> primitive, inner_shape |-> inner_shape]

NumpyForm(primitive, inner_shape, parameters) ==
    MkForm("Numpy", parameters, <<>>, <<>>, FALSE, FALSE, FALSE, 0, "", primitive, inner_shape)

EmptyForm(parameters) ==
    MkForm("Empty", parameters, <<>>, <<>>, FALSE, FALSE, FALSE, 0, "", "", <<>>)

BitMaskedForm(mask, content, valid_when, lsb_order, parameters) ==
    MkForm("BitMasked", parameters, <<content>>, <<>>, FALSE, valid_when, lsb_order, 0, mask, "", <<>>)

ByteMaskedForm(mask, content, valid_when, parameters) ==
    MkForm("ByteMasked", parameters, <<content>>, <<>>, FALSE, valid_when, FALSE, 0, mask, "", <<>>)

IndexedForm(index, content, parameters) ==
    MkForm("Indexed", parameters, <<content>>, <<>>, FALSE, FALSE, FALSE, 0, index, "", <<>>)

IndexedOptionForm(index, content, parameters) ==
    MkForm("IndexedOption", parameters, <<content>>, <<>>, FALSE, FALSE, FALSE, 0, index, "", <<>>)

ListForm(starts, content, parameters) ==
    MkForm("List", parameters, <<content>>, <<>>, FALSE, FALSE, FALSE, 0, starts, "", <<>>)

ListOffsetForm(offsets, content, parameters) ==
    MkForm("ListOffset", parameters, <<content>>, <<>>, FALSE, FALSE, FALSE, 0, offsets, "", <<>>)

RegularForm(content, size, parameters) ==
    MkForm("Regular", parameters, <<content>>, <<>>, FALSE, FALSE, FALSE, size, "", "", <<>>)

UnmaskedForm(content, parameters) ==
    MkForm("Unmasked", parameters, <<content>>, <<>>, FALSE, FALSE, FALSE, 0, "", "", <<>>)

RecordForm(contents, fields, is_tuple, parameters) ==
    MkForm("Record", parameters, contents, fields, is_tuple, FALSE, FALSE, 0, "", "", <<>>)

UnionForm(index, contents, parameters) ==
    MkForm("Union", parameters, contents, <<>>, FALSE, FALSE, FALSE, 0, index, "", <<>>)

\* "original_form is None": no Form at all.
NoForm == MkForm("None", NoParams, <<>>, <<>>, FALSE, FALSE, FALSE, 0, "", "", <<>>)

\* Form.is_option: the four option classes.
IsOption(f) == f.kind \in {"BitMasked", "ByteMasked", "IndexedOption", "Unmasked"}

OneContentKinds ==
    {"BitMasked", "ByteMasked", "Indexed", "IndexedOption", "List",
     "ListOffset", "Regular", "Unmasked"}

\* --------------------------------------------------------------- buffers
\* A buffer is either real data (prov = "data", vals its values) or a
\* DummyArrayLike (prov = "dummy", no values); cls is the Index class that
\* wraps it ("" for the data of a NumpyArray).
Buffer(cls, dtype, prov, shape, vals) ==
    [cls |-> cls, dtype |-> dtype, prov |-> prov, shape |-> shape, vals |-> vals]

DummyArrayLike(cls, dtype, shape) == Buffer(cls, dtype, "dummy", shape, <<>>)

DataBuffer(cls, dtype, vals) == Buffer(cls, dtype, "data", <<Len(vals)>>, vals)

index_of(typecode) ==
    CASE typecode = "i8" -> "Index8"
      [] typecode = "u8" -> "IndexU8"
      [] typecode = "i32" -> "Index32"
      [] typecode = "u32" -> "IndexU32"
      [] typecode = "i64" -> "Index64"

\* The dict literal names "i32" twice; the later entry (uint64) wins.
dtype_of(typecode) ==
    CASE typecode = "i8" -> "int8"
      [] typecode = "u8" -> "uint8"
      [] typecode = "i32" -> "uint64"
      [] typecode = "u32" -> "uint32"
      [] typecode = "i64" -> "int64"

dummy_index_of(typecode, n) ==
    DummyArrayLike(index_of(typecode), dtype_of(typecode), <<n>>)

\* ak.types.numpytype.primitive_to_dtype: primitives are named by dtype.
primitive_to_dtype(primitive) == primitive

\* --------------------------------------------------------------- Contents
MkContent(kind, parameters, contents, fields, is_tuple, valid_when, lsb_order, size, len, bufs) ==
    [kind |-> kind, parameters |-> parameters, contents |-> contents,
     fields |-> fields, is_tuple |-> is_tuple, valid_when |-> valid_when,
     lsb_order |-> lsb_order, size |-> size, length |-> len, bufs |-> bufs]

\* "layout is None"
None == MkContent("None", NoParams, <<>>, <<>>, FALSE, FALSE, FALSE, 0, 0, <<>>)

\* A raised exception, in the place of the layout that was not returned.
Raise(exc) == MkContent("Error", exc, <<>>, <<>>, FALSE, FALSE, FALSE, 0, 0, <<>>)

IsError(l) == l.kind = "Error"

\* The first exception raised while the arguments were evaluated, else value.
Try(args, value) ==
    IF \E i \in DOMAIN args : IsError(args[i])
    THEN args[CHOOSE i \in DOMAIN args :
                 /\ IsError(args[i])
                 /\ \A j \in DOMAIN args : j < i => ~IsError(args[j])]
    ELSE value

NumpyArray(data, parameters) ==
    MkContent("Numpy", parameters, <<>>, <<>>, FALSE, FALSE, FALSE, 0, 0, <<data>>)

EmptyArray(parameters) ==
    MkContent("Empty", parameters, <<>>, <<>>, FALSE, FALSE, FALSE, 0, 0, <<>>)

BitMaskedArray(mask, content, valid_when, len, lsb_order, parameters) ==
    Try(<<content>>,
        MkContent("BitMasked", parameters, <<content>>, <<>>, FALSE, valid_when,
                  lsb_order, 0, len, <<mask>>))

ByteMaskedArray(mask, content, valid_when, parameters) ==
    Try(<<content>>,
        MkContent("ByteMasked", parameters, <<content>>, <<>>, FALSE, valid_when,
                  FALSE, 0, 0, <<mask>>))

IndexedArray(index, content, parameters) ==
    Try(<<content>>,
        MkContent("Indexed", parameters, <<content>>, <<>>, FALSE, FALSE, FALSE, 0, 0, <<index>>))

IndexedOptionArray(index, content, parameters) ==
    Try(<<content>>,
        MkContent("IndexedOption", parameters, <<content>>, <<>>, FALSE, FALSE, FALSE, 0, 0, <<index>>))

ListArray(starts, stops, content, parameters) ==
    Try(<<content>>,
        MkContent("List", parameters, <<content>>, <<>>, FALSE, FALSE, FALSE, 0, 0, <<starts, stops>>))

ListOffsetArray(offsets, content, parameters) ==
    Try(<<content>>,
        MkContent("ListOffset", parameters, <<content>>, <<>>, FALSE, FALSE, FALSE, 0, 0, <<offsets>>))

RegularArray(content, size, zeros_length, parameters) ==
    Try(<<content>>,
        MkContent("Regular", parameters, <<content>>, <<>>, FALSE, FALSE, FALSE, size, zeros_length, <<>>))

UnmaskedArray(content, parameters) ==
    Try(<<content>>,
        MkContent("Unmasked", parameters, <<content>>, <<>>, FALSE, FALSE, FALSE, 0, 0, <<>>))

\* fields is None (here <<>>, with is_tuple) for a tuple.
RecordArray(contents, fields, is_tuple, len, parameters) ==
    Try(contents,
        MkContent("Record", parameters, contents, fields, is_tuple, FALSE, FALSE, 0, len, <<>>))

UnionArray(tags, index, contents, parameters) ==
    Try(contents,
        MkContent("Union", parameters, contents, <<>>, FALSE, FALSE, FALSE, 0, 0, <<tags, index>>))

\* Content.length of each class.
RECURSIVE LengthOf(_)
LengthOf(l) ==
    CASE l.kind = "Numpy" -> l.bufs[1].shape[1]
      [] l.kind = "Empty" -> 0
      [] l.kind = "BitMasked" -> l.length
      [] l.kind \in {"ByteMasked", "Indexed", "IndexedOption", "List", "Union"} ->
             l.bufs[1].shape[1]
      [] l.kind = "ListOffset" -> l.bufs[1].shape[1] - 1
      [] l.kind = "Regular" ->
             IF l.size # 0 THEN LengthOf(l.contents[1]) \div l.size ELSE l.length
      [] l.kind = "Unmasked" -> LengthOf(l.contents[1])
      [] l.kind = "Record" -> l.length
      [] OTHER -> 0

\* Content.copy(content=...)
CopyWithContent(l, content) == Try(<<content>>, [l EXCEPT !.contents = <<content>>])

\* Form.fields: the names, or "0", "1", ... for a tuple.
TupleNames == <<"0", "1", "2">>

FieldsOf(x) == IF x.is_tuple THEN SubSeq(TupleNames, 1, Len(x.contents)) ELSE x.fields

has_field(x, field) == field \in Range(FieldsOf(x))

FieldIndex(x, field) == CHOOSE i \in DOMAIN FieldsOf(x) : FieldsOf(x)[i] = field

ContentOf(x, field) == x.contents[FieldIndex(x, field)]

\* ---------------------------------------------------------- backend arrays
Zeros(n) == [i \in 1..n |-> 0]

Arange(n) == [i \in 1..n |-> i - 1]

Full(n, v) == [i \in 1..n |-> v]

\* backend.empty_like: n entries that were never written; junk stands for
\* whatever the memory held.
EmptyLike(n, junk) == [i \in 1..n |-> junk[((i - 1) % Len(junk)) + 1]]

\* ------------------------------------------------- layout is None (synthesis)
RECURSIVE AbsentLayout(_, _)

\* A mis-derived length: the content of a RegularForm at the list's length.
AbsentRegular_SameLength(f, n) ==
    RegularArray(AbsentLayout(f.contents[1], n), f.size, n, f.parameters)

\* layout is None, RegularForm: the content at length * size.
AbsentRegular(f, n) ==
    RegularArray(AbsentLayout(f.contents[1], n * f.size), f.size, n, f.parameters)

AbsentLayout(f, n) ==
    CASE f.kind = "Empty" -> EmptyArray(f.parameters)
      [] f.kind = "Numpy" ->
             NumpyArray(DummyArrayLike("", primitive_to_dtype(f.primitive), <<n>> \o f.inner_shape),
                        f.parameters)
      [] f.kind = "BitMasked" ->
             BitMaskedArray(dummy_index_of(f.index, CeilDiv8(n)),
                            AbsentLayout(f.contents[1], n),
                            f.valid_when, n, f.lsb_order, f.parameters)
      [] f.kind = "ByteMasked" ->
             ByteMaskedArray(dummy_index_of(f.index, n),
                             AbsentLayout(f.contents[1], n),
                             f.valid_when, f.parameters)
      [] f.kind = "Indexed" ->
             IndexedArray(dummy_index_of(f.index, n),
                          AbsentLayout(f.contents[1], 0), f.parameters)
      [] f.kind = "IndexedOption" ->
             IndexedOptionArray(dummy_index_of(f.index, n),
                                AbsentLayout(f.contents[1], 0), f.parameters)
      [] f.kind = "List" ->
             ListArray(dummy_index_of(f.index, n), dummy_index_of(f.index, n),
                       AbsentLayout(f.contents[1], 0), f.parameters)
      [] f.kind = "ListOffset" ->
             ListOffsetArray(dummy_index_of(f.index, n + 1),
                             AbsentLayout(f.contents[1], 0), f.parameters)
      [] f.kind = "Regular" -> AbsentRegular(f, n)
      [] f.kind = "Unmasked" ->
             UnmaskedArray(AbsentLayout(f.contents[1], n), f.parameters)
      [] f.kind = "Record" ->
             RecordArray([i \in DOMAIN f.contents |-> AbsentLayout(f.contents[i], n)],
                         IF f.is_tuple THEN <<>> ELSE f.fields, f.is_tuple, n, f.parameters)
      [] f.kind = "Union" ->
             UnionArray(dummy_index_of("i8", n), dummy_index_of(f.index, n),
                        [i \in DOMAIN f.contents |-> AbsentLayout(f.contents[i], 0)],
                        f.parameters)
      [] OTHER -> Raise("AssertionError")

\* ------------------------------------------------------------- compatible
\* type(form) is layout.form_cls
SameClass(f, l) == f.kind = l.kind

RECURSIVE compatible(_, _)

\* A mis-written record rule: a field the layout lacks makes it incompatible.
CompatibleRecord_AllFields(f, l) ==
    \A i \in DOMAIN f.contents :
        /\ has_field(l, FieldsOf(f)[i])
        /\ compatible(f.contents[i], ContentOf(l, FieldsOf(f)[i]))

\* RecordForm against RecordArray: the fields the layout has, the others skipped.
CompatibleRecord(f, l) ==
    \A i \in DOMAIN f.contents :
        has_field(l, FieldsOf(f)[i]) =>
            compatible(f.contents[i], ContentOf(l, FieldsOf(f)[i]))

compatible(f, l) ==
    IF l = None THEN TRUE
    ELSE IF SameClass(f, l) THEN
        CASE f.kind \in {"Empty", "Numpy"} -> TRUE
          [] f.kind \in OneContentKinds -> compatible(f.contents[1], l.contents[1])
          [] f.kind = "Record" -> CompatibleRecord(f, l)
          [] f.kind = "Union" ->
                 \A j \in DOMAIN l.contents :
                     \E i \in DOMAIN f.contents : compatible(f.contents[i], l.contents[j])
          [] OTHER -> FALSE
    ELSE IF l.kind = "Unmasked" /\ IsOption(f) THEN compatible(f.contents[1], l.contents[1])
    ELSE IF f.kind = "Union" THEN
        \E i \in DOMAIN f.contents : compatible(f.contents[i], l)
    ELSE FALSE

\* ------------------------------------------------------ _unproject_layout
RECURSIVE _unproject_layout(_, _, _, _)

\* type(form) is layout.form_cls, EmptyForm or NumpyForm: 0 contents.
SameKindLeaf(f, l) == l

\* type(form) is layout.form_cls, 1 content.
SameKindOneContent(f, l, junk) ==
    CopyWithContent(l, _unproject_layout(f.contents[1], l.contents[1],
                                         LengthOf(l.contents[1]), junk))

\* A mis-written field rule: a field the layout lacks is synthesized at
\* length 0.
RecordField_AbsentAtZero(f, l, n, junk, i) ==
    IF has_field(l, FieldsOf(f)[i])
    THEN _unproject_layout(f.contents[i], ContentOf(l, FieldsOf(f)[i]),
                           LengthOf(ContentOf(l, FieldsOf(f)[i])), junk)
    ELSE AbsentLayout(f.contents[i], 0)

\* One field of the RecordForm: reconciled when the layout has it, else
\* synthesized at the record's requested length.
RecordField(f, l, n, junk, i) ==
    IF has_field(l, FieldsOf(f)[i])
    THEN _unproject_layout(f.contents[i], ContentOf(l, FieldsOf(f)[i]),
                           LengthOf(ContentOf(l, FieldsOf(f)[i])), junk)
    ELSE AbsentLayout(f.contents[i], n)

\* type(form) is layout.form_cls, RecordForm.
SameKindRecord(f, l, n, junk) ==
    RecordArray([i \in DOMAIN f.contents |-> RecordField(f, l, n, junk, i)],
                IF f.is_tuple THEN <<>> ELSE f.fields, f.is_tuple, n, f.parameters)

\* A mis-written search: a layout alternative already taken may be taken
\* again.
Candidates_Reuse(subform, l, available) ==
    {oldtag \in {j - 1 : j \in DOMAIN l.contents} : compatible(subform, l.contents[oldtag + 1])}

\* The old tags (0-based) still in `available` whose layout is compatible
\* with subform.
Candidates(subform, l, available) ==
    {oldtag \in available : compatible(subform, l.contents[oldtag + 1])}

\* A mis-written search: the last compatible layout is taken.
FirstCandidate_Last(subform, l, available) ==
    CHOOSE oldtag \in Candidates(subform, l, available) :
        \A other \in Candidates(subform, l, available) : oldtag >= other

\* available.items() iterates in increasing oldtag; the first hit is taken.
FirstCandidate(subform, l, available) ==
    CHOOSE oldtag \in Candidates(subform, l, available) :
        \A other \in Candidates(subform, l, available) : oldtag <= other

\* newtags[layout.tags.data == oldtag] = newtag
Retag(newtags, tagdata, oldtag, newtag) ==
    [i \in DOMAIN newtags |->
        IF i \in DOMAIN tagdata /\ tagdata[i] = oldtag THEN newtag ELSE newtags[i]]

\* The loop over enumerate(form.contents), from the k-th subform (1-based).
RECURSIVE MatchAlternatives(_, _, _, _, _, _)
MatchAlternatives(f, l, k, available, contents, newtags) ==
    IF k > Len(f.contents) THEN [contents |-> contents, newtags |-> newtags]
    ELSE IF Candidates(f.contents[k], l, available) # {}
    THEN LET oldtag == FirstCandidate(f.contents[k], l, available)
         IN  MatchAlternatives(f, l, k + 1, available \ {oldtag},
                               Append(contents, l.contents[oldtag + 1]),
                               Retag(newtags, l.bufs[1].vals, oldtag, k - 1))
    ELSE MatchAlternatives(f, l, k + 1, available,
                           Append(contents, AbsentLayout(f.contents[k], 0)), newtags)

\* type(form) is layout.form_cls, UnionForm.
SameKindUnion(f, l, junk) ==
    LET m == MatchAlternatives(f, l, 1, {j - 1 : j \in DOMAIN l.contents}, <<>>,
                               EmptyLike(l.bufs[1].shape[1], junk))
    IN  UnionArray(Buffer("Index8", l.bufs[1].dtype, "data", <<Len(m.newtags)>>, m.newtags),
                   l.bufs[2], m.contents, f.parameters)

SameKind(f, l, n, junk) ==
    CASE f.kind \in {"Empty", "Numpy"} -> SameKindLeaf(f, l)
      [] f.kind \in OneContentKinds -> SameKindOneContent(f, l, junk)
      [] f.kind = "Record" -> SameKindRecord(f, l, n, junk)
      [] f.kind = "Union" -> SameKindUnion(f, l, junk)
      [] OTHER -> Raise("AssertionError")

\* The mask of the wrap: Index8.zeros / IndexU8.zeros of the requested length.
WrapMask(cls, dtype, n) == DataBuffer(cls, dtype, Zeros(n))

\* The index of the wrap: Index64(arange(layout.length)).
WrapIndex(l) == DataBuffer("Index64", "int64", Arange(LengthOf(l)))

\* layout is an UnmaskedArray, form is an option that is not UnmaskedForm.
UnmaskedWrap(f, l, n, junk) ==
    CASE f.kind = "BitMasked" ->
             BitMaskedArray(WrapMask("IndexU8", "uint8", n),
                            _unproject_layout(f.contents[1], l.contents[1],
                                              LengthOf(l.contents[1]), junk),
                            f.valid_when, LengthOf(l), f.lsb_order, l.parameters)
      [] f.kind = "ByteMasked" ->
             ByteMaskedArray(WrapMask("Index8", "int8", n),
                             _unproject_layout(f.contents[1], l.contents[1],
                                               LengthOf(l.contents[1]), junk),
                             f.valid_when, l.parameters)
      [] f.kind = "IndexedOption" ->
             IndexedOptionArray(WrapIndex(l),
                                _unproject_layout(f.contents[1], l.contents[1],
                                                  LengthOf(l.contents[1]), junk),
                                l.parameters)
      [] OTHER -> Raise("TypeError")

\* A mis-written unwrap: the content is reconciled and the wrapper put back.
UnmaskedUnwrap_KeepWrapper(f, l, junk) ==
    UnmaskedArray(_unproject_layout(f, l.contents[1], LengthOf(l.contents[1]), junk), l.parameters)

\* layout is an UnmaskedArray, form is not an option.
UnmaskedUnwrap(f, l, junk) ==
    _unproject_layout(f, l.contents[1], LengthOf(l.contents[1]), junk)

\* The new tags the loop over form.contents of a bare layout ends with: set
\* again at every compatible subform, so the last one stays.
CompatibleTags(f, l) == {i - 1 : i \in {j \in DOMAIN f.contents : compatible(f.contents[j], l)}}

BareNewtag(f, l) ==
    CHOOSE t \in CompatibleTags(f, l) : \A u \in CompatibleTags(f, l) : u <= t

\* One slot of the UnionArray built around a bare layout.
BareSlot(f, l, i) ==
    IF compatible(f.contents[i], l) THEN l ELSE AbsentLayout(f.contents[i], 0)

\* form is a UnionForm, layout is not a UnionArray.
BareUnderUnion(f, l) ==
    IF CompatibleTags(f, l) = {} THEN Raise("AssertionError")
    ELSE UnionArray(DataBuffer("Index8", "int8", Full(LengthOf(l), BareNewtag(f, l))),
                    DataBuffer("Index", dtype_of(f.index), Arange(LengthOf(l))),
                    [i \in DOMAIN f.contents |-> BareSlot(f, l, i)],
                    f.parameters)

\* A lenient last branch: the layout is handed back as it came.
Unexpected_PassThrough(f, l) == l

\* No branch matched: "unexpected combination".
Unexpected(f, l) == Raise("AssertionError")

_unproject_layout(f, l, n, junk) ==
    IF l = None THEN AbsentLayout(f, n)
    ELSE IF SameClass(f, l) THEN SameKind(f, l, n, junk)
    ELSE IF l.kind = "Unmasked" /\ f = NoForm THEN Raise("AttributeError")
    ELSE IF l.kind = "Unmasked" /\ IsOption(f) THEN UnmaskedWrap(f, l, n, junk)
    ELSE IF l.kind = "Unmasked" /\ ~IsOption(f) THEN UnmaskedUnwrap(f, l, junk)
    ELSE IF f.kind = "Union" THEN BareUnderUnion(f, l)
    ELSE Unexpected(f, l)

unproject_layout(f, l, junk) == _unproject_layout(f, l, LengthOf(l), junk)

\* ------------------------------------------------------------ input forms
\* The dtype an Index class holds.
IndexClassDtype(cls) ==
    CASE cls = "Index8" -> "int8"
      [] cls = "IndexU8" -> "uint8"
      [] cls = "Index32" -> "int32"
      [] cls = "IndexU32" -> "uint32"
      [] cls = "Index64" -> "int64"
      [] OTHER -> ""

FInt == NumpyForm("int64", <<>>, NoParams)

FFloat == NumpyForm("float64", <<>>, NoParams)

FChar == NumpyForm("uint8", <<>>, "char")

FPair == NumpyForm("int64", <<2>>, NoParams)

FEmpty == EmptyForm(NoParams)

LeafForms == {FInt, FFloat, FChar, FPair, FEmpty}

\* Every one-content Form class around content c.
Wrappers(c) ==
    {BitMaskedForm("u8", c, vw, TRUE, NoParams) : vw \in BOOLEAN}
    \cup {ByteMaskedForm("i8", c, vw, NoParams) : vw \in BOOLEAN}
    \cup {IndexedForm("i64", c, NoParams)}
    \cup {IndexedOptionForm(tc, c, NoParams) : tc \in {"i32", "i64"}}
    \cup {ListForm("i64", c, NoParams)}
    \cup {ListOffsetForm(tc, c, NoParams) : tc \in {"i32", "i64"}}
    \cup {RegularForm(c, 2, NoParams), UnmaskedForm(c, NoParams)}

\* The wrappers used around nested contents.
FewWrappers(c) ==
    {ByteMaskedForm("i8", c, TRUE, NoParams), IndexedOptionForm("i64", c, NoParams),
     ListOffsetForm("i64", c, NoParams), UnmaskedForm(c, NoParams)}

FRecXY == RecordForm(<<FInt, FFloat>>, <<"x", "y">>, FALSE, NoParams)

FRecX == RecordForm(<<FInt>>, <<"x">>, FALSE, NoParams)

FRecY == RecordForm(<<FFloat>>, <<"y">>, FALSE, NoParams)

FListInt == ListOffsetForm("i64", FInt, NoParams)

FListFloat == ListOffsetForm("i64", FFloat, NoParams)

RecordForms ==
    {FRecXY, FRecX, FRecY,
     RecordForm(<<FFloat, FInt>>, <<"y", "x">>, FALSE, NoParams),
     RecordForm(<<FInt, FInt>>, <<"x", "w">>, FALSE, NoParams),
     RecordForm(<<FListInt>>, <<"x">>, FALSE, NoParams),
     RecordForm(<<FInt, FListFloat>>, <<"x", "y">>, FALSE, NoParams),
     RecordForm(<<FInt, FEmpty>>, <<"x", "y">>, FALSE, NoParams),
     RecordForm(<<FInt, ByteMaskedForm("i8", FFloat, TRUE, NoParams)>>, <<"x", "y">>, FALSE, NoParams),
     RecordForm(<<UnmaskedForm(FInt, NoParams)>>, <<"x">>, FALSE, NoParams),
     RecordForm(<<FInt, FFloat>>, <<>>, TRUE, NoParams),
     RecordForm(<<FInt>>, <<>>, TRUE, NoParams),
     RecordForm(<<FInt, FFloat>>, <<"x", "y">>, FALSE, "point"),
     RecordForm(<<FRecXY, FFloat>>, <<"x", "y">>, FALSE, NoParams),
     RecordForm(<<FRecX>>, <<"x">>, FALSE, NoParams),
     RecordForm(<<FInt, FRecX>>, <<"w", "x">>, FALSE, NoParams)}

UnionForms ==
    {UnionForm("i64", <<FInt, FFloat>>, NoParams),
     UnionForm("i64", <<FFloat, FInt>>, NoParams),
     UnionForm("i32", <<FInt, FListInt>>, NoParams),
     UnionForm("i64", <<FListInt, FInt>>, NoParams),
     UnionForm("i64", <<FRecXY, FFloat>>, NoParams),
     UnionForm("i64", <<FRecX, FFloat>>, NoParams),
     UnionForm("i64", <<FRecXY, FListInt>>, NoParams),
     UnionForm("i64", <<FListInt, FListFloat>>, NoParams),
     UnionForm("i64", <<FInt, FListInt, FRecXY>>, NoParams),
     UnionForm("i64", <<FInt, FFloat, FListInt>>, NoParams),
     UnionForm("i64", <<ByteMaskedForm("i8", FInt, TRUE, NoParams), FListInt>>, NoParams),
     UnionForm("i32", <<UnmaskedForm(FInt, NoParams), FListInt>>, NoParams),
     UnionForm("i64", <<FInt, FFloat>>, "either")}

NestedForms ==
    UNION {FewWrappers(c) : c \in {FRecXY, FRecX, FListInt, UnmaskedForm(FInt, NoParams),
                                   UnionForm("i64", <<FInt, FFloat>>, NoParams)}}
    \cup {ByteMaskedForm("i8", FInt, TRUE, "masked"),
          UnmaskedForm(FInt, "masked"),
          ListOffsetForm("i64", FChar, "string")}

Forms ==
    LeafForms \cup UNION {Wrappers(c) : c \in {FInt, FEmpty}}
    \cup RecordForms \cup UnionForms \cup NestedForms

\* ---------------------------------------------------------- input layouts
\* A layout of form f with n rows of real data; seed tells the columns
\* apart. An EmptyArray has no rows: asking it for some is an error.
ListOffsets(n) == [i \in 1..(n + 1) |-> IF i = n + 1 /\ n > 0 THEN n + 1 ELSE i - 1]

CountTag(n, k, j) == Cardinality({i \in 1..n : (i - 1) % k = j - 1})

RECURSIVE Materialize(_, _, _)
Materialize(f, n, seed) ==
    CASE f.kind = "Empty" -> IF n = 0 THEN EmptyArray(f.parameters) ELSE Raise("Invalid")
      [] f.kind = "Numpy" ->
             NumpyArray(Buffer("", primitive_to_dtype(f.primitive), "data",
                               <<n>> \o f.inner_shape, [i \in 1..n |-> 10 * seed + i]),
                        f.parameters)
      [] f.kind = "BitMasked" ->
             BitMaskedArray(DataBuffer("IndexU8", "uint8", Full(CeilDiv8(n), 1)),
                            Materialize(f.contents[1], n, seed),
                            f.valid_when, n, f.lsb_order, f.parameters)
      [] f.kind = "ByteMasked" ->
             ByteMaskedArray(DataBuffer("Index8", "int8", [i \in 1..n |-> i % 2]),
                             Materialize(f.contents[1], n, seed),
                             f.valid_when, f.parameters)
      [] f.kind = "Indexed" ->
             IndexedArray(DataBuffer(index_of(f.index), IndexClassDtype(index_of(f.index)),
                                     [i \in 1..n |-> n - i]),
                          Materialize(f.contents[1], n, seed), f.parameters)
      [] f.kind = "IndexedOption" ->
             IndexedOptionArray(DataBuffer(index_of(f.index), IndexClassDtype(index_of(f.index)),
                                           [i \in 1..n |-> i - 2]),
                                Materialize(f.contents[1], n, seed), f.parameters)
      [] f.kind = "List" ->
             ListArray(DataBuffer(index_of(f.index), IndexClassDtype(index_of(f.index)),
                                  [i \in 1..n |-> i - 1]),
                       DataBuffer(index_of(f.index), IndexClassDtype(index_of(f.index)),
                                  [i \in 1..n |-> i]),
                       Materialize(f.contents[1], n + 1, seed), f.parameters)
      [] f.kind = "ListOffset" ->
             ListOffsetArray(DataBuffer(index_of(f.index), IndexClassDtype(index_of(f.index)),
                                        ListOffsets(n)),
                             Materialize(f.contents[1], n + 1, seed), f.parameters)
      [] f.kind = "Regular" ->
             RegularArray(Materialize(f.contents[1], n * f.size, seed), f.size, n, f.parameters)
      [] f.kind = "Unmasked" ->
             UnmaskedArray(Materialize(f.contents[1], n, seed), f.parameters)
      [] f.kind = "Record" ->
             RecordArray([i \in DOMAIN f.contents |-> Materialize(f.contents[i], n, 2 * seed + i)],
                         IF f.is_tuple THEN <<>> ELSE f.fields, f.is_tuple, n, f.parameters)
      [] f.kind = "Union" ->
             UnionArray(DataBuffer("Index8", "int8", [i \in 1..n |-> (i - 1) % Len(f.contents)]),
                        DataBuffer(index_of(f.index), IndexClassDtype(index_of(f.index)),
                                   [i \in 1..n |-> (i - 1) \div Len(f.contents)]),
                        [j \in DOMAIN f.contents |->
                            Materialize(f.contents[j], CountTag(n, Len(f.contents), j), 2 * seed + j)],
                        f.parameters)
      [] OTHER -> Raise("Invalid")

\* A RecordArray shorter than its fields: the same contents, one row less.
Truncated(l) == [l EXCEPT !.length = l.length - 1]

FullLayouts ==
    {l \in {Materialize(f, n, 1) : f \in Forms, n \in 0..MaxLen} : ~IsError(l)}

Layouts ==
    FullLayouts \cup {Truncated(l) : l \in {r \in FullLayouts : r.kind = "Record" /\ r.length >= 1}}

\* Contents of the memory that empty_like hands out.
JunkTags == {0, 127}

JunkSeqs == [1..MaxLen -> JunkTags]

\* ------------------------------------------------------------ column paths
\* A column name is the sequence of its dot-separated tokens: "x.list.item"
\* is <<"x", "list.item">>, and a leading dot is a leading empty token.

\* Form.columns(list_indicator) of awkward: the path of every leaf, in order
\* (a parquet dataset holds no Union).
RECURSIVE FormColumns(_, _, _)

RECURSIVE ColumnsOfFields(_, _, _, _)
ColumnsOfFields(f, k, path, listsep) ==
    IF k > Len(f.contents) THEN <<>>
    ELSE FormColumns(f.contents[k], Append(path, FieldsOf(f)[k]), listsep)
             \o ColumnsOfFields(f, k + 1, path, listsep)

FormColumns(f, path, listsep) ==
    CASE f.kind \in {"Numpy", "Empty"} -> <<path>>
      [] f.kind \in {"List", "ListOffset", "Regular"} ->
             FormColumns(f.contents[1],
                         IF f.parameters \in {"string", "bytestring"} THEN path
                         ELSE Append(path, listsep),
                         listsep)
      [] f.kind = "Record" -> ColumnsOfFields(f, 1, path, listsep)
      [] OTHER -> FormColumns(f.contents[1], path, listsep)

\* The fields of a Record that some requested column names or goes through.
KeptFields(f, columns) ==
    SelectSeq(FieldsOf(f), LAMBDA name : \E c \in columns : Head(c) = name)

\* Form.select_columns(columns) of awkward: the Record fields no requested
\* column names are dropped; a column that ends at a node keeps all below it.
RECURSIVE select_columns(_, _)
select_columns(f, columns) ==
    IF <<>> \in columns THEN f
    ELSE IF f.kind = "Record" THEN
        LET kept == KeptFields(f, columns)
        IN  RecordForm([i \in DOMAIN kept |->
                           select_columns(ContentOf(f, kept[i]),
                                          {Tail(c) : c \in {d \in columns : Head(d) = kept[i]}})],
                       IF f.is_tuple THEN <<>> ELSE kept, f.is_tuple, f.parameters)
    ELSE [f EXCEPT !.contents = [i \in DOMAIN f.contents |-> select_columns(f.contents[i], columns)]]

\* -------------------------------------------------------- JSON schemas
\* A JSON schema node: its "type", and by type its properties (with their
\* names), its items or the types of its alternatives. size is minItems =
\* maxItems, or -1 without them.
MkSchema(type, names, properties, items, size) ==
    [type |-> type, names |-> names, properties |-> properties, items |-> items, size |-> size]

\* "schema is None"
NoSchema == MkSchema("None", <<>>, <<>>, <<>>, -1)

\* np.dtype.kind
DtypeKind(dtype) ==
    CASE dtype \in {"int8", "int32", "int64"} -> "i"
      [] dtype \in {"float32", "float64"} -> "f"
      [] dtype \in {"uint8", "uint32", "uint64"} -> "u"
      [] OTHER -> "O"

\* layout_to_jsonschema(form.length_zero_array()); existing is the "type" the
\* dict handed in holds: "object" at the root, "null" for a property ({"type":
\* None}), "absent" for items ({}).
RECURSIVE layout_to_jsonschema(_, _)
layout_to_jsonschema(f, existing) ==
    CASE f.kind = "Record" ->
             MkSchema("object", FieldsOf(f),
                      [i \in DOMAIN f.contents |-> layout_to_jsonschema(f.contents[i], "null")],
                      <<>>, -1)
      [] f.kind # "Record" /\ f.parameters \in {"string", "bytestring"} ->
             MkSchema("string", <<>>, <<>>, <<>>, -1)
      [] f.kind \in {"List", "ListOffset", "Regular"} /\ f.parameters \notin {"string", "bytestring"} ->
             MkSchema("array", <<>>, <<>>, <<layout_to_jsonschema(f.contents[1], "absent")>>,
                      IF f.kind = "Regular" THEN f.size ELSE -1)
      [] IsOption(f) /\ f.parameters \notin {"string", "bytestring"} ->
             layout_to_jsonschema(f.contents[1], existing)
      [] f.kind = "Numpy" /\ f.parameters \notin {"string", "bytestring"} ->
             MkSchema(CASE DtypeKind(primitive_to_dtype(f.primitive)) = "i" -> "integer"
                        [] DtypeKind(primitive_to_dtype(f.primitive)) = "f" -> "number"
                        [] OTHER -> existing,
                      <<>>, <<>>, <<>>, -1)
      [] f.kind = "Indexed" /\ f.parameters \notin {"string", "bytestring"} ->
             MkSchema(existing, <<>>, <<>>, <<>>, -1)
      [] f.kind = "Empty" /\ f.parameters \notin {"string", "bytestring"} ->
             MkSchema("object", <<>>, <<>>, <<>>, -1)
      [] f.kind = "Union" /\ f.parameters \notin {"string", "bytestring"} ->
             MkSchema("union",
                      [i \in DOMAIN f.contents |-> layout_to_jsonschema(f.contents[i], "object").type],
                      <<>>, <<>>, -1)
      [] OTHER -> MkSchema(existing, <<>>, <<>>, <<>>, -1)

\* The Form of what ak.from_json builds for a schema; NoForm for a schema
\* it does not take.
RECURSIVE SchemaForm(_)
SchemaForm(schema) ==
    CASE schema.type = "object" ->
             RecordForm([i \in DOMAIN schema.properties |-> SchemaForm(schema.properties[i])],
                        schema.names, FALSE, NoParams)
      [] schema.type = "array" /\ schema.size < 0 ->
             ListOffsetForm("i64", SchemaForm(schema.items[1]), NoParams)
      [] schema.type = "array" /\ schema.size >= 0 ->
             RegularForm(SchemaForm(schema.items[1]), schema.size, NoParams)
      [] schema.type = "string" ->
             ListOffsetForm("i64", NumpyForm("uint8", <<>>, "char"), "string")
      [] schema.type = "integer" -> NumpyForm("int64", <<>>, NoParams)
      [] schema.type = "number" -> NumpyForm("float64", <<>>, NoParams)
      [] OTHER -> NoForm

\* ------------------------------------------------------ partition readers
\* self.columns of _FromParquetFn.__init__
ReaderColumns(form_, listsep, unnamed_root) ==
    IF unnamed_root
    THEN [i \in DOMAIN FormColumns(form_, <<>>, listsep) |->
             <<"">> \o FormColumns(form_, <<>>, listsep)[i]]
    ELSE FormColumns(form_, <<>>, listsep)

\* A reader function object: _FromParquetFileWiseFn, _FromParquetFragmentWiseFn
\* or _FromJsonLineDelimitedFn, with the attributes __init__ sets.
_FromParquetFn(cls, form_, listsep, unnamed_root, original_form) ==
    [cls |-> cls, form |-> form_, listsep |-> listsep, unnamed_root |-> unnamed_root,
     columns |-> ReaderColumns(form_, listsep, unnamed_root),
     original_form |-> original_form, schema |-> NoSchema]

_FromJsonFn(cls, schema, form_, original_form) ==
    [cls |-> cls, form |-> form_, listsep |-> "", unnamed_root |-> FALSE,
     columns |-> <<>>, original_form |-> original_form, schema |-> schema]

\* No reader yet.
NoReader == _FromJsonFn("None", NoSchema, NoForm, NoForm)

\* The columns argument: None, or the requested columns.
NoColumns == [none |-> TRUE, names |-> {}]

SomeColumns(names) == [none |-> FALSE, names |-> names]

\* _FromParquetFileWiseFn.project_columns
ProjectFileWise(self, columns, original_form) ==
    IF columns.none THEN self
    ELSE _FromParquetFn("FileWise", select_columns(self.form, columns.names),
                        self.listsep, self.unnamed_root, original_form)

\* _FromParquetFragmentWiseFn.project_columns: listsep is not handed on, so
\* the new reader has the default.
ProjectFragmentWise(self, columns, original_form) ==
    IF columns.none THEN self
    ELSE _FromParquetFn("FragmentWise", select_columns(self.form, columns.names),
                        "list.item", self.unnamed_root, original_form)

\* _FromJsonLineDelimitedFn.project_columns
ProjectJsonLineDelimited(self, columns, original_form) ==
    IF self.form # NoForm
    THEN _FromJsonFn("JsonLineDelimited",
                     layout_to_jsonschema(select_columns(self.form, columns.names), "object"),
                     select_columns(self.form, columns.names), original_form)
    ELSE self

project_columns(self, columns, original_form) ==
    CASE self.cls = "FileWise" -> ProjectFileWise(self, columns, original_form)
      [] self.cls = "FragmentWise" -> ProjectFragmentWise(self, columns, original_form)
      [] OTHER -> ProjectJsonLineDelimited(self, columns, original_form)

\* ak_from_parquet._load(..., subform=self.form): n rows in the reader's form.
ParquetLoad(self, n) == Materialize(self.form, n, 1)

\* ak.from_json(..., schema=self.schema): n rows as the schema says, or as
\* the lines themselves say without one.
JsonLoad(self, n) ==
    IF self.schema = NoSchema THEN Materialize(self.form, n, 1)
    ELSE Materialize(SchemaForm(self.schema), n, 1)

\* What the decoder hands the reader for a partition of n rows.
Load(self, n) == IF self.cls = "JsonLineDelimited" THEN JsonLoad(self, n) ELSE ParquetLoad(self, n)

\* _FromParquetFileWiseFn.__call__ and _FromParquetFragmentWiseFn.__call__
ParquetCall(self, loaded, junk) == unproject_layout(self.original_form, loaded, junk)

\* _FromJsonLineDelimitedFn.__call__
JsonCall(self, loaded, junk) == loaded

ReaderCall(self, loaded, junk) ==
    IF self.cls = "JsonLineDelimited" THEN JsonCall(self, loaded, junk)
    ELSE ParquetCall(self, loaded, junk)

\* ak_from_parquet.metadata: the column names the files hold, written with
\* the dataset's list separator, under an unnamed root for a non-Record.
ParquetColumns(form_, listsep) == ReaderColumns(form_, listsep, form_.kind # "Record")

\* ".list.element." in c
HasListElement(c) == \E i \in DOMAIN c : c[i] = "list.element" /\ i > 1 /\ i < Len(c)

\* c.startswith(".")
StartsWithDot(c) == Len(c) >= 2 /\ c[1] = ""

\* The loop of from_parquet over parquet_columns, from the k-th on.
RECURSIVE DetectFrom(_, _, _)
DetectFrom(parquet_columns, k, unnamed_root) ==
    IF k > Len(parquet_columns)
    THEN [listsep |-> "list.item", unnamed_root |-> unnamed_root]
    ELSE IF HasListElement(parquet_columns[k])
    THEN [listsep |-> "list.element", unnamed_root |-> unnamed_root]
    ELSE DetectFrom(parquet_columns, k + 1, unnamed_root \/ StartsWithDot(parquet_columns[k]))

Detect(parquet_columns) == DetectFrom(parquet_columns, 1, FALSE)

\* Nothing detected yet.
NotDetected == [listsep |-> "", unnamed_root |-> FALSE]

\* ------------------------------------------------------------ datasets
\* No dataset is open: the state of the readers while a single
\* reconciliation is looked at.
NoDataset == [format |-> "", listsep |-> "", split_row_groups |-> FALSE]

\* No from_json call.
NoArgs == [highlevel |-> TRUE, blocksize |-> "", delimiter |-> "", one_obj_per_file |-> FALSE]

NoOutcome == [mode |-> "", blocksize |-> "", delimiter |-> ""]

\* No to_parquet call.
NoJob == [npartitions |-> 0, write_metadata |-> FALSE, compute |-> FALSE, prefix |-> ""]

IdleReader ==
    /\ dataset = NoDataset
    /\ detected = NotDetected
    /\ reader = NoReader

IdleJson ==
    /\ kwargs = NoArgs
    /\ outcome = NoOutcome

IdleWrite ==
    /\ job = NoJob
    /\ files = {}
    /\ written = {}

IdleConc ==
    /\ tasks = <<>>
    /\ module = <<>>
    /\ heap = <<>>

IdlePlaceholder ==
    /\ placeholder = <<>>
    /\ op = <<>>
    /\ ret = <<>>

IdleCollection ==
    /\ source = <<>>
    /\ collection = <<>>
    /\ selection = <<>>
    /\ selected = <<>>

IdleSample ==
    /\ sampling = <<>>
    /\ sampled = <<>>

IdleArray == IdlePlaceholder /\ IdleCollection /\ IdleSample

ioVars == <<readerVars, jsonVars, writeVars, concVars, arrayVars>>

NoIO == IdleReader /\ IdleJson /\ IdleWrite /\ IdleConc /\ IdleArray

\* ------------------------------------------------------------- the machine
Init ==
    /\ form \in Forms
    /\ layout \in Layouts \cup {None}
    /\ length \in 0..MaxLen
    /\ layout # None => length = LengthOf(layout)
    /\ pc = "start"
    /\ result = None
    /\ answer = FALSE
    /\ again = None
    /\ NoIO

\* unproject_layout(form, layout), as the readers call it.
Unproject ==
    /\ pc = "start"
    /\ layout # None
    /\ \E junk \in JunkSeqs : result' = unproject_layout(form, layout, junk)
    /\ pc' = "returned"
    /\ UNCHANGED <<form, layout, length, answer, again>>
    /\ UNCHANGED ioVars

\* _unproject_layout(form, None, length, backend)
Synthesize ==
    /\ pc = "start"
    /\ layout = None
    /\ \E junk \in JunkSeqs : result' = _unproject_layout(form, None, length, junk)
    /\ pc' = "returned"
    /\ UNCHANGED <<form, layout, length, answer, again>>
    /\ UNCHANGED ioVars

\* compatible(form, layout)
Compatible ==
    /\ pc = "start"
    /\ answer' = compatible(form, layout)
    /\ pc' = "answered"
    /\ UNCHANGED <<form, layout, length, result, again>>
    /\ UNCHANGED ioVars

\* unproject_layout(form, unproject_layout(form, layout)): the reader's call
\* made once more, on the layout the first call returned.
Reapply ==
    /\ pc = "returned"
    /\ layout # None
    /\ ~IsError(result)
    /\ \E junk \in JunkSeqs : again' = unproject_layout(form, result, junk)
    /\ pc' = "reapplied"
    /\ UNCHANGED <<form, layout, length, result, answer>>
    /\ UNCHANGED ioVars

Next == Unproject \/ Synthesize \/ Compatible \/ Reapply

Spec == Init /\ [][Next]_vars

\* ----------------------------------------------- the readers' machine
FRecXList == RecordForm(<<FInt, FListFloat>>, <<"x", "y">>, FALSE, NoParams)

FRecNested == RecordForm(<<ListOffsetForm("i64", FRecXY, NoParams), FInt>>, <<"x", "y">>, FALSE, NoParams)

FRecOption == RecordForm(<<IndexedOptionForm("i64", FInt, NoParams), FFloat>>, <<"x", "y">>, FALSE, NoParams)

FRecString == RecordForm(<<ListOffsetForm("i64", FChar, "string"), FListInt>>, <<"x", "y">>, FALSE, NoParams)

FRecUnion == RecordForm(<<UnionForm("i64", <<FInt, FListInt>>, NoParams), FFloat>>, <<"x", "y">>, FALSE, NoParams)

\* The schemas datasets are opened with.
ParquetForms ==
    {FRecXY, FRecXList, FRecNested, FRecOption, FRecString, FListInt,
     ListOffsetForm("i64", FRecXY, NoParams)}

JsonForms == {FRecXY, FRecXList, FRecNested, FRecOption, FRecString, FRecUnion}

\* The projections asked for.
ColumnArgs ==
    {SomeColumns(names) : names \in {{<<"x">>}, {<<"y">>}, {<<"x">>, <<"y">>}, {<<"x", "y">>}}}

ReaderInit ==
    /\ dataset \in [format : {"parquet"}, listsep : {"list.item", "list.element"},
                    split_row_groups : BOOLEAN]
                   \cup [format : {"json"}, listsep : {""}, split_row_groups : {FALSE}]
    /\ form \in IF dataset.format = "parquet" THEN ParquetForms ELSE JsonForms
    /\ detected = NotDetected
    /\ reader = NoReader
    /\ layout = None
    /\ length = 0
    /\ pc = "closed"
    /\ result = None
    /\ answer = FALSE
    /\ again = None
    /\ IdleJson /\ IdleWrite /\ IdleConc /\ IdleArray

\* from_parquet: the separator and the unnamed root are read off the column
\* names, and the reader is made with the schema of the files as its form.
from_parquet ==
    /\ pc = "closed"
    /\ dataset.format = "parquet"
    /\ detected' = Detect(ParquetColumns(form, dataset.listsep))
    /\ reader' = _FromParquetFn(IF dataset.split_row_groups THEN "FragmentWise" ELSE "FileWise",
                                form, detected'.listsep, detected'.unnamed_root, NoForm)
    /\ pc' = "open"
    /\ UNCHANGED <<form, layout, length, result, answer, again, dataset>>
    /\ UNCHANGED <<jsonVars, writeVars, concVars, arrayVars>>

\* _from_json_files: one _FromJsonLineDelimitedFn for the files.
from_json_files ==
    /\ pc = "closed"
    /\ dataset.format = "json"
    /\ reader' = _FromJsonFn("JsonLineDelimited", NoSchema, form, NoForm)
    /\ pc' = "open"
    /\ UNCHANGED <<form, layout, length, result, answer, again, dataset, detected>>
    /\ UNCHANGED <<jsonVars, writeVars, concVars, arrayVars>>

\* io_func.project_columns(columns, original_form=...): the caller hands over
\* the dataset's schema, the reader's current form, or nothing.
Project ==
    /\ pc = "open"
    /\ \E columns \in ColumnArgs \cup (IF dataset.format = "parquet" THEN {NoColumns} ELSE {}),
          original_form \in {NoForm, form, reader.form} :
           reader' = project_columns(reader, columns, original_form)
    /\ UNCHANGED <<form, layout, length, pc, result, answer, again, dataset, detected>>
    /\ UNCHANGED <<jsonVars, writeVars, concVars, arrayVars>>

\* reader(source): one partition of n rows is decoded and returned.
Call ==
    /\ pc = "open"
    /\ \E n \in 0..MaxLen, junk \in JunkSeqs :
           /\ layout' = Load(reader, n)
           /\ length' = n
           /\ result' = Try(<<Load(reader, n)>>, ReaderCall(reader, Load(reader, n), junk))
    /\ pc' = "called"
    /\ UNCHANGED <<form, answer, again, dataset, detected, reader>>
    /\ UNCHANGED <<jsonVars, writeVars, concVars, arrayVars>>

ReaderNext == from_parquet \/ from_json_files \/ Project \/ Call

ReaderSpec == ReaderInit /\ [][ReaderNext]_vars

\* ------------------------------------------------- vocabulary of the claims
\* Content.form: the Form a layout has.
TypecodeOf(cls) ==
    CASE cls = "Index8" -> "i8"
      [] cls = "IndexU8" -> "u8"
      [] cls = "Index32" -> "i32"
      [] cls = "IndexU32" -> "u32"
      [] cls = "Index64" -> "i64"
      [] OTHER -> ""

RECURSIVE FormOf(_)
FormOf(l) ==
    MkForm(l.kind, l.parameters, [i \in DOMAIN l.contents |-> FormOf(l.contents[i])],
           l.fields, l.is_tuple, l.valid_when, l.lsb_order, l.size,
           IF l.kind = "Union" THEN TypecodeOf(l.bufs[2].cls)
           ELSE IF l.bufs # <<>> /\ l.kind # "Numpy" THEN TypecodeOf(l.bufs[1].cls) ELSE "",
           IF l.kind = "Numpy" THEN l.bufs[1].dtype ELSE "",
           IF l.kind = "Numpy" THEN Tail(l.bufs[1].shape) ELSE <<>>)

\* A node without its children.
Shallow(f) == [f EXCEPT !.contents = <<>>, !.fields = <<>>]

\* s is t with some entries left out, the order kept.
RECURSIVE IsSubSeq(_, _)
IsSubSeq(s, t) ==
    IF s = <<>> THEN TRUE
    ELSE IF t = <<>> THEN FALSE
    ELSE IF Head(s) = Head(t) THEN IsSubSeq(Tail(s), Tail(t))
    ELSE IsSubSeq(s, Tail(t))

\* The layout is what a reader hands over for some projection of the schema:
\* the schema with Record fields and Union alternatives left out, where the
\* reader may have put an UnmaskedArray for an option or around a non-option.
RECURSIVE PartialLayout(_, _)
PartialLayout(f, l) ==
    IF l.kind = f.kind THEN
        /\ Shallow(FormOf(l)) = Shallow(f)
        /\ CASE f.kind = "Record" ->
                    /\ IsSubSeq(FieldsOf(l), FieldsOf(f))
                    /\ \A i \in DOMAIN l.contents :
                           PartialLayout(ContentOf(f, FieldsOf(l)[i]), l.contents[i])
             [] f.kind = "Union" ->
                    \E g \in [DOMAIN l.contents -> DOMAIN f.contents] :
                        /\ \A i, j \in DOMAIN l.contents : i < j => g[i] < g[j]
                        /\ \A j \in DOMAIN l.contents :
                               PartialLayout(f.contents[g[j]], l.contents[j])
             [] OTHER ->
                    \A i \in DOMAIN f.contents : PartialLayout(f.contents[i], l.contents[i])
    ELSE IF l.kind = "Unmasked" /\ IsOption(f) THEN
        l.parameters = f.parameters /\ PartialLayout(f.contents[1], l.contents[1])
    ELSE IF l.kind = "Unmasked" THEN PartialLayout(f, l.contents[1])
    ELSE IF f.kind = "Union" THEN \E i \in DOMAIN f.contents : PartialLayout(f.contents[i], l)
    ELSE FALSE

\* The kinds and parameters of a tree, of a Form or of a layout.
RECURSIVE KindTree(_)
KindTree(x) ==
    [kind |-> x.kind, parameters |-> x.parameters, fields |-> FieldsOf(x),
     contents |-> [i \in DOMAIN x.contents |-> KindTree(x.contents[i])]]

\* The buffers a node holds besides a Union's tags.
OwnBuffers(l) == IF l.kind = "Union" THEN <<l.bufs[2]>> ELSE l.bufs

PathStep(l, i) ==
    CASE l.kind = "Record" -> <<FieldsOf(l)[i]>>
      [] l.kind \in {"List", "ListOffset", "Regular"} -> <<"list.item">>
      [] OTHER -> <<>>

\* Every buffer-holding node of a layout, with its column path.
RECURSIVE Columns(_, _)
Columns(l, path) ==
    (IF OwnBuffers(l) # <<>> THEN {<<path, l.kind, OwnBuffers(l)>>} ELSE {})
    \cup UNION {Columns(l.contents[i], path \o PathStep(l, i)) : i \in DOMAIN l.contents}

Returned == pc = "returned" /\ ~IsError(result)

\* ---------------------------------------------------------------- claims
\* C1: whenever _unproject_layout returns a layout, its tree of kinds and
\* parameters equals the schema's, at every depth.
C1_SchemaExact ==
    (Returned /\ (layout = None \/ PartialLayout(form, layout)))
        => KindTree(result) = KindTree(form)

\* C2: every buffer (values, offsets, starts/stops, masks, indexes) at a
\* column path of the partial layout is found unchanged at that path in the
\* result.
C2_DataPreserved ==
    (Returned /\ layout # None /\ PartialLayout(form, layout))
        => \A c \in Columns(layout, <<>>) : c \in Columns(result, <<>>)

\* C3: the root of a returned layout has the requested length.
C3_LengthPost == Returned => LengthOf(result) = length

\* C4: a layout that already has the schema's form comes back unchanged.
C4_NoOpOnFull ==
    (pc = "returned" /\ layout # None /\ FormOf(layout) = form) => result = layout

C4_Witness ==
    /\ pc = "returned"
    /\ layout.kind = "Union"
    /\ FormOf(layout) = form
    /\ LengthOf(layout) >= 2
    /\ result = layout

\* Whether row i (1-based) of a masked result reads as valid.
Pow2(k) == IF k = 0 THEN 1 ELSE IF k = 1 THEN 2 ELSE IF k = 2 THEN 4 ELSE IF k = 3 THEN 8 ELSE IF k = 4 THEN 16 ELSE IF k = 5 THEN 32 ELSE IF k = 6 THEN 64 ELSE 128

MaskBit(l, i) ==
    LET byte == l.bufs[1].vals[((i - 1) \div 8) + 1]
        k == (i - 1) % 8
    IN  (byte \div Pow2(IF l.lsb_order THEN k ELSE 7 - k)) % 2

ReadsValid(l, i) ==
    CASE l.kind = "ByteMasked" ->
             i \in DOMAIN l.bufs[1].vals /\ ((l.bufs[1].vals[i] # 0) = l.valid_when)
      [] l.kind = "BitMasked" ->
             ((i - 1) \div 8) + 1 \in DOMAIN l.bufs[1].vals /\ ((MaskBit(l, i) # 0) = l.valid_when)
      [] l.kind = "IndexedOption" ->
             i \in DOMAIN l.bufs[1].vals /\ l.bufs[1].vals[i] >= 0
      [] OTHER -> TRUE

\* C5: an UnmaskedArray wrapped into the schema's option has every row valid
\* under the schema's valid_when, an identity index for IndexedOption, and
\* the layout's content reconciled at its own length.
C5_WrapAllValid ==
    (Returned /\ layout.kind = "Unmasked"
        /\ form.kind \in {"BitMasked", "ByteMasked", "IndexedOption"}) =>
        /\ result.kind = form.kind
        /\ result.valid_when = form.valid_when
        /\ \A i \in 1..LengthOf(layout) : ReadsValid(result, i)
        /\ form.kind = "IndexedOption" => result.bufs[1].vals = Arange(LengthOf(layout))
        /\ \E junk \in JunkSeqs :
               result.contents[1] =
                   _unproject_layout(form.contents[1], layout.contents[1],
                                     LengthOf(layout.contents[1]), junk)

\* Every buffer of the tree is a DummyArrayLike.
RECURSIVE OnlyPlaceholders(_)
OnlyPlaceholders(l) ==
    /\ \A i \in DOMAIN l.bufs : l.bufs[i].prov = "dummy"
    /\ \A i \in DOMAIN l.contents : OnlyPlaceholders(l.contents[i])

FirstCompatible(f, l) ==
    CHOOSE i \in DOMAIN f.contents :
        /\ compatible(f.contents[i], l)
        /\ \A j \in DOMAIN f.contents : compatible(f.contents[j], l) => i <= j

\* C6: a bare layout under a Union schema sits in the slot of the first
\* compatible alternative and in no other; tags are that slot's index, the
\* index is the identity, the other slots are placeholders of length 0.
C6_BareUnderUnion ==
    (Returned /\ form.kind = "Union" /\ layout # None
        /\ layout.kind \notin {"Union", "Unmasked"}) =>
        /\ result.kind = "Union"
        /\ Len(result.contents) = Len(form.contents)
        /\ \A i \in DOMAIN result.contents :
               IF i = FirstCompatible(form, layout)
               THEN result.contents[i] = layout
               ELSE /\ LengthOf(result.contents[i]) = 0
                    /\ OnlyPlaceholders(result.contents[i])
                    /\ KindTree(result.contents[i]) = KindTree(form.contents[i])
        /\ result.bufs[1].vals = Full(LengthOf(layout), FirstCompatible(form, layout) - 1)
        /\ result.bufs[2].vals = Arange(LengthOf(layout))

\* The case analysis of the specification, as a yes/no question: whether
\* some node pair it reaches falls under no rule, or a bare layout under a
\* Union schema fits no alternative.
RECURSIVE Irreconcilable(_, _)
Irreconcilable(f, l) ==
    IF l = None THEN FALSE
    ELSE IF l.kind = f.kind THEN
        CASE f.kind \in OneContentKinds -> Irreconcilable(f.contents[1], l.contents[1])
          [] f.kind = "Record" ->
                 \E name \in Range(FieldsOf(f)) \cap Range(FieldsOf(l)) :
                     Irreconcilable(ContentOf(f, name), ContentOf(l, name))
          [] OTHER -> FALSE
    ELSE IF l.kind = "Unmasked" THEN
        Irreconcilable(IF IsOption(f) THEN f.contents[1] ELSE f, l.contents[1])
    ELSE IF f.kind = "Union" THEN
        \A i \in DOMAIN f.contents : ~compatible(f.contents[i], l)
    ELSE TRUE

\* C7: the call raises exactly on an irreconcilable input, and then hands
\* back no layout.
C7_FailsExactly ==
    pc = "returned" => (IsError(result) <=> Irreconcilable(form, layout))

C7_Witness ==
    /\ pc = "returned"
    /\ IsError(result)
    /\ form.kind = "Record"
    /\ layout.kind = "Record"
    /\ Irreconcilable(form, layout)

\* The rule set of the Compatibility Checker, read off the specification.
RECURSIVE SpecCompatible(_, _)
SpecCompatible(f, l) ==
    CASE l = None -> TRUE
      [] l # None /\ l.kind = f.kind /\ f.kind \in {"Numpy", "Empty"} -> TRUE
      [] l # None /\ l.kind = f.kind /\ f.kind \in OneContentKinds ->
             SpecCompatible(f.contents[1], l.contents[1])
      [] l # None /\ l.kind = f.kind /\ f.kind = "Record" ->
             \A j \in DOMAIN l.contents :
                 has_field(f, FieldsOf(l)[j]) =>
                     SpecCompatible(ContentOf(f, FieldsOf(l)[j]), l.contents[j])
      [] l # None /\ l.kind = f.kind /\ f.kind = "Union" ->
             \A j \in DOMAIN l.contents :
                 \E i \in DOMAIN f.contents : SpecCompatible(f.contents[i], l.contents[j])
      [] l.kind = "Unmasked" /\ f.kind \in {"BitMasked", "ByteMasked", "IndexedOption"} ->
             SpecCompatible(f.contents[1], l.contents[1])
      [] f.kind = "Union" /\ l.kind \notin {"Union", "None"} ->
             \E i \in DOMAIN f.contents : SpecCompatible(f.contents[i], l)
      [] OTHER -> FALSE

\* C8: compatible answers as the rule set of the specification does.
C8_CompatibleRules == pc = "answered" => answer = SpecCompatible(form, layout)

C8_Witness ==
    /\ pc = "answered"
    /\ answer
    /\ form.kind = "Record"
    /\ layout.kind = "Record"
    /\ \E name \in Range(FieldsOf(form)) : ~has_field(layout, name)
    /\ \E name \in Range(FieldsOf(form)) : has_field(layout, name)

\* Every Record field and every Union alternative the schema declares is there.
RECURSIVE DeclaredAll(_, _)
DeclaredAll(f, r) ==
    /\ r.kind = f.kind
    /\ FieldsOf(r) = FieldsOf(f)
    /\ Len(r.contents) = Len(f.contents)
    /\ \A i \in DOMAIN f.contents : i \in DOMAIN r.contents => DeclaredAll(f.contents[i], r.contents[i])

\* C9: synthesis from an absent root has every declared field and
\* alternative, and the requested length at the root.
C9_AbsentRoot ==
    (pc = "returned" /\ layout = None) =>
        /\ ~IsError(result)
        /\ DeclaredAll(form, result)
        /\ LengthOf(result) = length

\* The dtype a typecode declares.
DeclaredDtype(typecode) == IndexClassDtype(index_of(typecode))

\* The buffers a synthesized node of form f and length n must have: their
\* dtypes and shapes.
DeclaredBuffers(f, n) ==
    CASE f.kind = "Numpy" -> <<[dtype |-> primitive_to_dtype(f.primitive), shape |-> <<n>> \o f.inner_shape]>>
      [] f.kind = "BitMasked" -> <<[dtype |-> DeclaredDtype(f.index), shape |-> <<CeilDiv8(n)>>]>>
      [] f.kind \in {"ByteMasked", "Indexed", "IndexedOption"} ->
             <<[dtype |-> DeclaredDtype(f.index), shape |-> <<n>>]>>
      [] f.kind = "List" ->
             <<[dtype |-> DeclaredDtype(f.index), shape |-> <<n>>],
               [dtype |-> DeclaredDtype(f.index), shape |-> <<n>>]>>
      [] f.kind = "ListOffset" -> <<[dtype |-> DeclaredDtype(f.index), shape |-> <<n + 1>>]>>
      [] f.kind = "Union" ->
             <<[dtype |-> "int8", shape |-> <<n>>],
               [dtype |-> DeclaredDtype(f.index), shape |-> <<n>>]>>
      [] OTHER -> <<>>

\* r, synthesized for form f at length n, holds only placeholders of the
\* declared dtype and length, at every depth (a child at its own length).
RECURSIVE PlaceholderFill(_, _, _)
PlaceholderFill(f, r, n) ==
    /\ r.kind = f.kind
    /\ r.bufs # <<>> => LengthOf(r) = n
    /\ [i \in DOMAIN r.bufs |-> [dtype |-> r.bufs[i].dtype, shape |-> r.bufs[i].shape]]
           = DeclaredBuffers(f, n)
    /\ \A i \in DOMAIN r.bufs : r.bufs[i].prov = "dummy"
    /\ Len(r.contents) = Len(f.contents)
    /\ \A i \in DOMAIN r.contents :
           PlaceholderFill(f.contents[i], r.contents[i], LengthOf(r.contents[i]))

\* C10: whatever is synthesized (an absent root, a Record field the layout
\* lacks, a Union alternative no layout was matched to) consists only of
\* placeholders of the declared dtype and length.
C10_PlaceholderFill ==
    /\ (pc = "returned" /\ layout = None) => PlaceholderFill(form, result, length)
    /\ (Returned /\ form.kind = "Record" /\ layout.kind = "Record") =>
           \A i \in DOMAIN form.contents :
               ~has_field(layout, FieldsOf(form)[i]) =>
                   PlaceholderFill(form.contents[i], result.contents[i], length)
    /\ (Returned /\ form.kind = "Union" /\ layout.kind = "Union") =>
           \A i \in DOMAIN form.contents :
               result.contents[i] \notin Range(layout.contents) =>
                   PlaceholderFill(form.contents[i], result.contents[i], 0)

\* C11: unproject_layout applied, with the same schema, to the layout it
\* returned succeeds and returns that layout again.
C11_Idempotent == pc = "reapplied" => again = result

\* C12: a parquet reader called on a partition, file-wise or row-group-wise,
\* projected or as from_parquet made it, returns the layout read for the
\* partition reconciled against the schema the dataset was opened with, and
\* no error.
C12_ParquetConforms ==
    (pc = "called" /\ dataset.format = "parquet") =>
        /\ ~IsError(result)
        /\ \E junk \in JunkSeqs : result = unproject_layout(form, layout, junk)

\* C13: the reader in use, as made by from_parquet or from_json and after
\* any projections, holds the schema the dataset was opened with as its
\* original schema.
C13_OriginalFixed == pc \in {"open", "called"} => reader.original_form = form

\* C14: the column paths of every parquet reader of a dataset are derived
\* with the separator from_parquet detected for the dataset.
C14_ListsepConsistent ==
    (pc \in {"open", "called"} /\ dataset.format = "parquet") =>
        reader.columns = ReaderColumns(reader.form, detected.listsep, reader.unnamed_root)

\* C15: a line-delimited JSON reader that project_columns gave an original
\* schema returns, called on a partition, a layout of that schema's kinds
\* and fields.
C15_JsonFullSchema ==
    (pc = "called" /\ reader.cls = "JsonLineDelimited" /\ reader.original_form # NoForm) =>
        /\ ~IsError(result)
        /\ KindTree(result) = KindTree(reader.original_form)

\* Whether a placeholder tree shows that it was synthesized at length m. An
\* EmptyArray shows no length; a RegularArray shows it through its content.
RECURSIVE SynthesizedAt(_, _)
SynthesizedAt(l, m) ==
    CASE l.kind = "Empty" -> TRUE
      [] l.kind = "Numpy" -> l.bufs[1].shape[1] = m
      [] l.kind = "BitMasked" -> l.length = m /\ l.bufs[1].shape[1] = CeilDiv8(m)
      [] l.kind \in {"ByteMasked", "Indexed", "IndexedOption", "Union"} ->
             \A i \in DOMAIN l.bufs : l.bufs[i].shape[1] = m
      [] l.kind = "List" -> l.bufs[1].shape[1] = m /\ l.bufs[2].shape[1] = m
      [] l.kind = "ListOffset" -> l.bufs[1].shape[1] = m + 1
      [] l.kind = "Regular" ->
             IF l.size # 0 THEN SynthesizedAt(l.contents[1], m * l.size) ELSE l.length = m
      [] l.kind = "Unmasked" -> SynthesizedAt(l.contents[1], m)
      [] l.kind = "Record" -> l.length = m
      [] OTHER -> FALSE

\* The length the content of a node synthesized at n is to have; masked tells
\* what is said of ByteMasked, BitMasked and Unmasked: n, or else 0.
DerivedLength(f, n, masked) ==
    CASE f.kind = "Regular" -> n * f.size
      [] f.kind = "Record" -> n
      [] f.kind \in {"BitMasked", "ByteMasked", "Unmasked"} -> IF masked THEN n ELSE 0
      [] OTHER -> 0

\* r was synthesized for f at n with every content at its derived length,
\* at every depth, and the tags and index of a Union are placeholders.
RECURSIVE DerivedLengths(_, _, _, _)
DerivedLengths(f, r, n, masked) ==
    /\ r.kind = f.kind
    /\ SynthesizedAt(r, n)
    /\ Len(r.contents) = Len(f.contents)
    /\ f.kind = "Union" => \A i \in DOMAIN r.bufs : r.bufs[i].prov = "dummy"
    /\ \A i \in DOMAIN r.contents :
           DerivedLengths(f.contents[i], r.contents[i], DerivedLength(f, n, masked), masked)

\* C19, as the claim has it: synthesis from an absent layout at length n has
\* the content of a RegularList at n times size, of a List, a ListOffset,
\* every option kind and Indexed at 0, every Record field at n, and every
\* Union alternative at 0 under tag and index placeholders of length n.
C19_DerivedLengths ==
    (pc = "returned" /\ layout = None) => DerivedLengths(form, result, length, FALSE)

\* C19, amended: as above, but the content of a ByteMaskedOption, a
\* BitMaskedOption and an Unmasked is synthesized at n (an IndexedOption's
\* and an Indexed's at 0).
C19_DerivedLengthsMasked ==
    (pc = "returned" /\ layout = None) => DerivedLengths(form, result, length, TRUE)

C19_Witness ==
    /\ pc = "returned"
    /\ layout = None
    /\ length >= 1
    /\ form.kind = "ByteMasked"
    /\ form.contents[1].kind = "Numpy"
    /\ result.kind = "ByteMasked"
    /\ result.bufs[1].shape = <<length>>
    /\ result.contents[1].bufs[1].shape = <<length>>

\* C20: for a Record schema and a Record layout the result has the schema's
\* fields in the schema's order; a field the layout has is that field
\* reconciled at its own length, a field the layout lacks is a placeholder
\* tree of the schema's field at the parent's length.
C20_RecordFields ==
    (Returned /\ form.kind = "Record" /\ layout # None /\ layout.kind = "Record") =>
        /\ result.kind = "Record"
        /\ FieldsOf(result) = FieldsOf(form)
        /\ Len(result.contents) = Len(form.contents)
        /\ \A i \in DOMAIN form.contents :
               IF has_field(layout, FieldsOf(form)[i])
               THEN \E junk \in JunkSeqs :
                        result.contents[i] =
                            _unproject_layout(form.contents[i], ContentOf(layout, FieldsOf(form)[i]),
                                              LengthOf(ContentOf(layout, FieldsOf(form)[i])), junk)
               ELSE /\ KindTree(result.contents[i]) = KindTree(form.contents[i])
                    /\ OnlyPlaceholders(result.contents[i])
                    /\ SynthesizedAt(result.contents[i], length)

\* A Record layout shorter than its fields, with a nested Record that lacks
\* a field and a field the layout lacks altogether.
C20_Witness ==
    /\ Returned
    /\ form.kind = "Record"
    /\ layout.kind = "Record"
    /\ length >= 1
    /\ \E i \in DOMAIN form.contents : ~has_field(layout, FieldsOf(form)[i])
    /\ \E j \in DOMAIN layout.contents :
           /\ has_field(form, FieldsOf(layout)[j])
           /\ layout.contents[j].kind = "Record"
           /\ LengthOf(layout.contents[j]) > length
           /\ Len(ContentOf(result, FieldsOf(layout)[j]).contents) > Len(layout.contents[j].contents)
    /\ \E j \in DOMAIN layout.contents : ~has_field(form, FieldsOf(layout)[j])

\* ---------------------------------------------------------------------
\* from_json: how blocksize and delimiter choose the way of reading
\* (json.py 297-427).
\* ---------------------------------------------------------------------

\* An argument left at its default None.
NoneArg == "None"

\* b"\n".
Newline == "\n"

Blocksizes == {NoneArg, "128 MiB", "200 MB", "1 KiB", "4096"}

Delimiters == {NoneArg, Newline, ",", ";", "\r\n"}

\* Lines 392-395: either argument alone may switch on reading by blocks.
DefaultArgs(a) ==
    IF a.blocksize # NoneArg /\ a.delimiter = NoneArg THEN [a EXCEPT !.delimiter = Newline]
    ELSE IF a.blocksize = NoneArg /\ a.delimiter = Newline THEN [a EXCEPT !.blocksize = "128 MiB"]
    ELSE a

\* Lines 387-427: "files" is _from_json_files (one partition per file),
\* "bytes" is _from_json_bytes (dask's read_bytes with the delimiter and the
\* blocksize), and the other modes are the exceptions raised.
FromJsonOutcome(a) ==
    IF ~a.highlevel THEN [mode |-> "ValueError", blocksize |-> a.blocksize, delimiter |-> a.delimiter]
    ELSE LET d == DefaultArgs(a)
         IN IF d.delimiter = NoneArg /\ d.blocksize = NoneArg
               THEN [mode |-> "files", blocksize |-> d.blocksize, delimiter |-> d.delimiter]
            ELSE IF d.delimiter # NoneArg /\ d.blocksize # NoneArg
               THEN [mode |-> "bytes", blocksize |-> d.blocksize, delimiter |-> d.delimiter]
            ELSE [mode |-> "TypeError", blocksize |-> d.blocksize, delimiter |-> d.delimiter]

JsonInit ==
    /\ pc = "start"
    /\ kwargs \in [highlevel : BOOLEAN, blocksize : Blocksizes, delimiter : Delimiters, one_obj_per_file : BOOLEAN]
    /\ outcome = NoOutcome
    /\ form = NoForm
    /\ layout = None
    /\ length = 0
    /\ result = None
    /\ answer = FALSE
    /\ again = None
    /\ IdleReader /\ IdleWrite /\ IdleConc /\ IdleArray

from_json ==
    /\ pc = "start"
    /\ outcome' = FromJsonOutcome(kwargs)
    /\ pc' = "returned"
    /\ UNCHANGED <<form, layout, length, result, answer, again, kwargs>>
    /\ UNCHANGED <<readerVars, writeVars, concVars, arrayVars>>

JsonNext == from_json

JsonSpec == JsonInit /\ [][JsonNext]_vars

\* C17: a from_json call with a delimiter and no blocksize reads by byte
\* blocks of 128 MiB, whatever the delimiter is; a call with a blocksize and
\* no delimiter reads by byte blocks delimited by the newline.
C17_BlocksizeDefault ==
    (pc = "returned" /\ kwargs.highlevel) =>
        /\ (kwargs.delimiter # NoneArg /\ kwargs.blocksize = NoneArg) =>
              /\ outcome.mode = "bytes"
              /\ outcome.blocksize = "128 MiB"
              /\ outcome.delimiter = kwargs.delimiter
        /\ (kwargs.blocksize # NoneArg /\ kwargs.delimiter = NoneArg) =>
              /\ outcome.mode = "bytes"
              /\ outcome.blocksize = kwargs.blocksize
              /\ outcome.delimiter = Newline

\* The two halves of C17 apart: the default holds for the newline, and the
\* newline is the default delimiter.
C17_NewlineOnly ==
    (pc = "returned" /\ kwargs.highlevel) =>
        /\ (kwargs.delimiter = Newline /\ kwargs.blocksize = NoneArg) =>
              outcome = [mode |-> "bytes", blocksize |-> "128 MiB", delimiter |-> Newline]
        /\ (kwargs.blocksize # NoneArg /\ kwargs.delimiter = NoneArg) =>
              outcome = [mode |-> "bytes", blocksize |-> kwargs.blocksize, delimiter |-> Newline]

\* ---------------------------------------------------------------------
\* to_parquet: one file per partition and the metadata files
\* (parquet.py 363-528).
\* ---------------------------------------------------------------------

MaxParts == 3

Prefixes == {NoneArg, "run"}

RECURSIVE Digits(_)
\* str(i), one entry per decimal digit.
Digits(i) == IF i < 10 THEN <<i>> ELSE Digits(i \div 10) \o <<i % 10>>

RECURSIVE zfill(_, _)
\* str.zfill: zeros on the left up to the width, never a cut.
zfill(digits, width) == IF Len(digits) >= width THEN digits ELSE zfill(<<0>> \o digits, width)

RECURSIVE CeilLog10(_)
\* math.ceil(math.log(npartitions, 10)) for npartitions >= 1.
CeilLog10(n) == IF n <= 1 THEN 0 ELSE 1 + CeilLog10((n + 9) \div 10)

\* A name under the destination root: "<prefix>-<stem><number>.parquet" for
\* a partition, the bare stem for a metadata file.
FileName(prefix, stem, number) == [prefix |-> prefix, stem |-> stem, number |-> number]

\* _ToParquetFn.__call__, lines 402-408: the file of partition i.
PartFile(j, i) == FileName(j.prefix, "part", zfill(Digits(i), CeilLog10(j.npartitions)))

\* _write_metadata, lines 371-378: the paths it opens for writing, in order.
_write_metadata == <<FileName(NoneArg, "_metadata", <<>>), FileName(NoneArg, "_metadata", <<>>)>>

\* _metadata_file_from_metas, lines 363-368: aggregates and writes.
_metadata_file_from_metas == {_write_metadata[k] : k \in DOMAIN _write_metadata}

MetadataFile == FileName(NoneArg, "_metadata", <<>>)

CommonMetadataFile == FileName(NoneArg, "_common_metadata", <<>>)

Partitions(j) == 0 .. (j.npartitions - 1)

WriteInit ==
    /\ pc = "start"
    /\ job \in [npartitions : 1 .. MaxParts, write_metadata : BOOLEAN, compute : BOOLEAN, prefix : Prefixes]
    /\ files = {}
    /\ written = {}
    /\ form = NoForm
    /\ layout = None
    /\ length = 0
    /\ result = None
    /\ answer = FALSE
    /\ again = None
    /\ IdleReader /\ IdleJson /\ IdleConc /\ IdleArray

\* to_parquet, lines 414-528: the graph is built (the destination directory
\* is made by _ToParquetFn.__init__) and, with compute, run before returning.
to_parquet ==
    /\ pc = "start"
    /\ pc' = IF job.compute THEN "running" ELSE "pending"
    /\ UNCHANGED <<form, layout, length, result, answer, again>>
    /\ UNCHANGED <<readerVars, jsonVars, writeVars, concVars, arrayVars>>

\* The caller computes the Scalar that to_parquet(compute=False) returned.
Compute ==
    /\ pc = "pending"
    /\ pc' = "running"
    /\ UNCHANGED <<form, layout, length, result, answer, again>>
    /\ UNCHANGED <<readerVars, jsonVars, writeVars, concVars, arrayVars>>

\* One task of the map_partitions layer: _ToParquetFn.__call__ on partition i.
WritePartition ==
    /\ pc = "running"
    /\ \E i \in Partitions(job) \ written :
          /\ files' = files \cup {PartFile(job, i)}
          /\ written' = written \cup {i}
    /\ UNCHANGED <<form, layout, length, pc, result, answer, again, job>>
    /\ UNCHANGED <<readerVars, jsonVars, concVars, arrayVars>>

\* The final task, lines 511-519: it depends on every partition's task.
Finalize ==
    /\ pc = "running"
    /\ written = Partitions(job)
    /\ files' = IF job.write_metadata THEN files \cup _metadata_file_from_metas ELSE files
    /\ pc' = "computed"
    /\ UNCHANGED <<form, layout, length, result, answer, again, job, written>>
    /\ UNCHANGED <<readerVars, jsonVars, concVars, arrayVars>>

WriteNext == to_parquet \/ Compute \/ WritePartition \/ Finalize

WriteSpec == WriteInit /\ [][WriteNext]_vars

\* C18: once a to_parquet with write_metadata=True has been computed, the
\* destination holds a _metadata file and a _common_metadata file.
C18_MetadataFiles ==
    (pc = "computed" /\ job.write_metadata) =>
        /\ MetadataFile \in files
        /\ CommonMetadataFile \in files

\* What the computed write does leave: one file per partition, and _metadata
\* exactly when write_metadata is set.
C18_MetadataOnly ==
    pc = "computed" =>
        files = {PartFile(job, i) : i \in Partitions(job)} \cup (IF job.write_metadata THEN {MetadataFile} ELSE {})

\* ---------------------------------------------------------------------
\* Reconciliations side by side: the readers of one collection call
\* unproject_layout once per partition, all with the same original_form
\* (unproject_layout.py 117-141, 200-447).
\* ---------------------------------------------------------------------

NParts == 2

Typecodes == {"i8", "u8", "i32", "u32", "i64"}

\* The module-level dicts, lines 117-131.
ModuleTables ==
    [index_of |-> [t \in Typecodes |-> index_of(t)], dtype_of |-> [t \in Typecodes |-> dtype_of(t)]]

\* What one invocation leaves in the module tables: no statement of
\* lines 200-447 assigns to index_of or dtype_of or to an entry of them.
TablesAfter(m) == m

\* What one invocation leaves in the schema and in a layout it was handed:
\* every branch builds new Content objects and writes only to arrays it
\* allocated itself (newtags, line 362-368).
ObjectAfter(o) == o

\* The schemas of the collections read side by side.
ConcForms ==
    {UnionForm("i64", <<FInt, FFloat>>, NoParams),
     UnionForm("i32", <<FInt, FListInt>>, NoParams),
     RecordForm(<<FInt, FRecX>>, <<"w", "x">>, FALSE, NoParams),
     ListOffsetForm("i64", FRecXY, NoParams)}

\* The partitions a reader may hand over for the schema, one row at least.
ConcLayouts(f) == {l \in Layouts : LengthOf(l) >= 1 /\ PartialLayout(f, l)}

Task(l, state, alone, res) == [layout |-> l, input |-> l, pc |-> state, alone |-> alone, result |-> res]

ConcInit ==
    /\ pc = "concurrent"
    /\ form \in ConcForms
    /\ tasks \in [1 .. NParts -> {Task(l, "idle", None, None) : l \in ConcLayouts(form)}]
    /\ module = ModuleTables
    /\ heap \in JunkSeqs
    /\ layout = None
    /\ length = 0
    /\ result = None
    /\ answer = FALSE
    /\ again = None
    /\ IdleReader /\ IdleJson /\ IdleWrite /\ IdleArray

\* Partition p's invocation begins. alone records what it returns if no
\* other invocation runs before it does.
Enter(p) ==
    /\ tasks[p].pc = "idle"
    /\ tasks' = [tasks EXCEPT ![p].pc = "running", ![p].alone = unproject_layout(form, tasks[p].layout, heap)]
    /\ UNCHANGED <<form, layout, length, pc, result, answer, again, module, heap>>
    /\ UNCHANGED <<readerVars, jsonVars, writeVars, arrayVars>>

\* Partition p's invocation returns. The arrays it allocated and dropped go
\* back to the allocator, so the next empty_like may see other contents.
Return(p) ==
    /\ tasks[p].pc = "running"
    /\ tasks' = [tasks EXCEPT ![p].pc = "done",
                              ![p].layout = ObjectAfter(tasks[p].layout),
                              ![p].result = unproject_layout(form, tasks[p].layout, heap)]
    /\ form' = ObjectAfter(form)
    /\ module' = TablesAfter(module)
    /\ heap' \in JunkSeqs
    /\ UNCHANGED <<layout, length, pc, result, answer, again>>
    /\ UNCHANGED <<readerVars, jsonVars, writeVars, arrayVars>>

ConcNext == \E p \in 1 .. NParts : Enter(p) \/ Return(p)

ConcSpec == ConcInit /\ [][ConcNext]_vars

\* C16: in every interleaving each invocation returns what it returns when
\* run alone, and the module tables, the schema and the layouts handed in
\* are as they were before the invocations.
C16_Independent ==
    pc = "concurrent" =>
        /\ \A p \in DOMAIN tasks : tasks[p].pc = "done" => tasks[p].result = tasks[p].alone
        /\ module = ModuleTables
        /\ form \in ConcForms
        /\ \A p \in DOMAIN tasks : tasks[p].layout = tasks[p].input

\* The second half of C16 alone: no step of an invocation changes the
\* module tables, the schema or a layout that was handed in.
C16_NoSharedWrites ==
    [][/\ module' = module
       /\ form' = form
       /\ \A p \in DOMAIN tasks : tasks'[p].layout = tasks[p].layout]_vars

\* The first half of C16 where no uninitialized memory is read: a layout
\* without a UnionArray comes back the same in every interleaving.
C16_NoUnionIndependent ==
    \A p \in DOMAIN tasks :
        (tasks[p].pc = "done" /\ tasks[p].layout.kind # "Union") => tasks[p].result = tasks[p].alone

\* ---------------------------------------------------------------------
\* Union schema against Union layout (unproject_layout.py 358-379).
\* ---------------------------------------------------------------------

\* The layout alternative (its old tag, 0-based) that the k-th schema
\* alternative takes, -1 when none is left for it: the first one compatible
\* with it that no earlier schema alternative took.
RECURSIVE TakenBy(_, _, _)
TakenBy(f, l, k) ==
    LET used == {TakenBy(f, l, j) : j \in 1 .. (k - 1)}
        free == {t \in 0 .. (Len(l.contents) - 1) :
                    t \notin used /\ compatible(f.contents[k], l.contents[t + 1])}
    IN  IF free = {} THEN -1 ELSE CHOOSE t \in free : \A u \in free : t <= u

UnionOnUnion == pc = "returned" /\ layout # None /\ form.kind = "Union" /\ layout.kind = "Union"

\* C21: for a Union schema and a Union layout the result is a UnionArray
\* with one child per schema alternative, in schema order; the child is the
\* first layout alternative compatible with the schema alternative and not
\* taken by an earlier one, or, when there is none, the schema alternative
\* synthesized from absent at length 0.
C21_UnionStructure ==
    UnionOnUnion =>
        /\ result.kind = "Union"
        /\ Len(result.contents) = Len(form.contents)
        /\ \A k \in DOMAIN form.contents :
              result.contents[k] =
                  IF TakenBy(form, layout, k) = -1
                  THEN AbsentLayout(form.contents[k], 0)
                  ELSE layout.contents[TakenBy(form, layout, k) + 1]

\* A schema alternative takes a layout alternative from another position,
\* one finds none, and one passes over a compatible alternative already taken.
C21_Witness ==
    /\ UnionOnUnion
    /\ C21_UnionStructure
    /\ \E k \in DOMAIN form.contents :
          TakenBy(form, layout, k) >= 0 /\ TakenBy(form, layout, k) # k - 1
    /\ \E k \in DOMAIN form.contents : TakenBy(form, layout, k) = -1
    /\ \E j, k \in DOMAIN form.contents :
          /\ j < k
          /\ TakenBy(form, layout, j) >= 0
          /\ compatible(form.contents[k], layout.contents[TakenBy(form, layout, j) + 1])

\* The old tags of the layout and the new tags of the result, row by row.
OldTags == layout.bufs[1].vals

NewTags == result.bufs[1].vals

\* C22: for a Union schema and a Union layout that are compatible, every
\* row of the result has a tag that names a child of the result, and that
\* child is the layout alternative the row's old tag named.
C22_TagsRemapped ==
    (UnionOnUnion /\ compatible(form, layout)) =>
        /\ result.kind = "Union"
        /\ DOMAIN NewTags = DOMAIN OldTags
        /\ \A i \in DOMAIN OldTags :
              /\ NewTags[i] \in 0 .. (Len(result.contents) - 1)
              /\ TakenBy(form, layout, NewTags[i] + 1) = OldTags[i]

\* The rows whose layout alternative some schema alternative took are
\* remapped to the slot that took it.
C22_TakenRemapped ==
    (UnionOnUnion /\ compatible(form, layout)) =>
        /\ result.kind = "Union"
        /\ DOMAIN NewTags = DOMAIN OldTags
        /\ \A i \in DOMAIN OldTags : \A k \in DOMAIN form.contents :
              TakenBy(form, layout, k) = OldTags[i] => NewTags[i] = k - 1

\* ---------------------------------------------------------------------
\* UnmaskedArray under a schema that is not an option
\* (unproject_layout.py 420-423).
\* ---------------------------------------------------------------------

UnwrapCase == pc = "returned" /\ layout # None /\ layout.kind = "Unmasked" /\ ~IsOption(form)

\* C23: for an Unmasked layout and a schema that is not an option, the
\* result is what reconciling the schema against the layout's content, at
\* the content's length, gives; when that is a layout, its root is not an
\* option node.
C23_UnmaskedUnwrap ==
    UnwrapCase =>
        /\ \E junk \in JunkSeqs :
              result = _unproject_layout(form, layout.contents[1], LengthOf(layout.contents[1]), junk)
        /\ ~IsError(result) => result.kind \notin {"BitMasked", "ByteMasked", "IndexedOption", "Unmasked"}

\* An unwrap that returned a layout: the wrapper is gone and the content's
\* data is at the root's position.
C23_Witness ==
    /\ UnwrapCase
    /\ ~IsError(result)
    /\ result.kind = form.kind
    /\ LengthOf(result) >= 1
    /\ C23_UnmaskedUnwrap

\* An unwrap whose content the schema does not fit passes the error on.
C23_WitnessError == UnwrapCase /\ IsError(result) /\ C23_UnmaskedUnwrap

\* ---------------------------------------------------------------------
\* compatible against _unproject_layout (unproject_layout.py 144-447).
\* ---------------------------------------------------------------------

\* C24: whenever compatible(schema, layout) is true for a layout that is
\* not absent, unproject_layout(schema, layout) returns a layout and raises
\* nothing.
C24_CompatibleReconciles ==
    (pc = "returned" /\ layout # None /\ compatible(form, layout)) => ~IsError(result)

\* ---------------------------------------------------------------------
\* The dtype of placeholder and identity indexes
\* (unproject_layout.py 117-137, 431-432).
\* ---------------------------------------------------------------------

\* The element dtype a typecode stands for: that of the index class the
\* module's index_of table names for it.
TypecodeDtype(typecode) == IndexClassDtype(index_of(typecode))

\* The typecode the schema declares for the i-th index buffer of its node.
DeclaredTypecode(f, i) == IF f.kind = "Union" /\ i = 1 THEN "i8" ELSE f.index

\* A schema node with index buffers, synthesized from absent.
AbsentIndexCase ==
    /\ pc = "returned"
    /\ layout = None
    /\ ~IsError(result)
    /\ form.kind \in {"BitMasked", "ByteMasked", "Indexed", "IndexedOption", "List", "ListOffset", "Union"}

\* A bare layout put under a Union schema.
BareUnionCase ==
    /\ pc = "returned"
    /\ layout # None
    /\ ~IsError(result)
    /\ form.kind = "Union"
    /\ layout.kind \notin {"Union", "Unmasked"}

IndexDtypes(typecodes) ==
    /\ (AbsentIndexCase /\ form.index \in typecodes) =>
           \A i \in DOMAIN result.bufs :
               /\ result.bufs[i].prov = "dummy"
               /\ result.bufs[i].dtype = TypecodeDtype(DeclaredTypecode(form, i))
               /\ result.bufs[i].dtype = IndexClassDtype(result.bufs[i].cls)
    /\ (BareUnionCase /\ form.index \in typecodes) =>
           result.bufs[2].dtype = TypecodeDtype(form.index)

\* C25: every placeholder index synthesized for a schema node, and the
\* identity index built for a bare layout under a Union schema, has the
\* element dtype of the typecode the schema declares, which is the dtype of
\* the index class chosen for that typecode.
C25_IndexDtype == IndexDtypes({"i8", "u8", "i32", "u32", "i64"})

\* The same for every typecode but i32.
C25_ExceptI32 == IndexDtypes({"i8", "u8", "u32", "i64"})

\* ---------------------------------------------------------------------
\* DummyArrayLike: what can be asked of a placeholder buffer
\* (unproject_layout.py 39-97).
\* ---------------------------------------------------------------------

MaxShape == 3

\* Python's //, for a divisor that is not zero.
FloorDiv(a, b) == IF b > 0 THEN a \div b ELSE (0 - a) \div (0 - b)

Smaller(a, b) == IF a < b THEN a ELSE b

Larger(a, b) == IF a < b THEN b ELSE a

\* A key handed to __getitem__ or __setitem__: a slice, whose parts are <<>>
\* when left out and <<v>> when given, or an integer.
SliceKey(start, stop, step) == [kind |-> "slice", start |-> start, stop |-> stop, step |-> step, at |-> 0]

IntKey(i) == [kind |-> "int", start |-> <<>>, stop |-> <<>>, step |-> <<>>, at |-> i]

NoKey == [kind |-> "", start |-> <<>>, stop |-> <<>>, step |-> <<>>, at |-> 0]

SliceBounds == {<<>>} \cup {<<v>> : v \in (0 - MaxShape - 1) .. (MaxShape + 1)}

SliceSteps == {<<>>} \cup {<<v>> : v \in (0 - MaxShape) .. MaxShape}

Keys ==
    {SliceKey(a, b, c) : a \in SliceBounds, b \in SliceBounds, c \in SliceSteps}
    \cup {IntKey(i) : i \in (0 - 1) .. MaxShape}

\* The placeholders the module builds: one axis of the requested length
\* (dummy_index_of), or that axis before a NumpyForm's inner_shape.
Placeholders ==
    {DummyArrayLike("", dt, sh) :
        dt \in {"int64", "uint8"},
        sh \in {<<n>> : n \in 0 .. MaxShape} \cup {<<n, 2>> : n \in 0 .. MaxShape}}

\* What an operation came to: kind is "int", "dtype", "shape" or
\* "DummyArrayLike" for a value, else the exception raised.
Ret(kind, value, dtype, shape) == [kind |-> kind, value |-> value, dtype |-> dtype, shape |-> shape]

Raised(exc) == Ret(exc, 0, "", <<>>)

Failed(r) == r.kind \in {"TypeError", "RuntimeError", "ValueError", "IndexError"}

\* One bound of slice.indices(length): a negative bound counts from the end,
\* and every bound is cut to the range the step can walk.
ClampBound(v, len, lower, upper) ==
    IF v < 0 THEN Larger(v + len, lower) ELSE Smaller(v, upper)

\* slice.indices(length) for a step that is not zero.
slice_indices(key, len) ==
    LET step == IF key.step = <<>> THEN 1 ELSE key.step[1]
        lower == IF step < 0 THEN 0 - 1 ELSE 0
        upper == IF step < 0 THEN len - 1 ELSE len
        start == IF key.start = <<>> THEN (IF step < 0 THEN upper ELSE lower)
                 ELSE ClampBound(key.start[1], len, lower, upper)
        stop == IF key.stop = <<>> THEN (IF step < 0 THEN lower ELSE upper)
                ELSE ClampBound(key.stop[1], len, lower, upper)
    IN  [start |-> start, stop |-> stop, step |-> step]

\* A lenient __getitem__: an integer index answers 0.
NotASlice_Zero(d, key) == Ret("int", 0, "", <<>>)

\* __getitem__ with an index that is not a slice, lines 73-76.
NotASlice(d, key) == Raised("TypeError")

\* __getitem__, lines 68-76. slice.indices raises ValueError for step 0.
GetItemOf(d, key) ==
    IF key.kind = "slice"
    THEN IF key.step = <<0>> THEN Raised("ValueError")
         ELSE LET ix == slice_indices(key, d.shape[1])
              IN  Ret("DummyArrayLike", 0, d.dtype, <<FloorDiv(ix.stop - ix.start, ix.step)>>)
    ELSE NotASlice(d, key)

RECURSIVE Product(_)
Product(shape) == IF shape = <<>> THEN 1 ELSE Head(shape) * Product(Tail(shape))

PlaceholderInit ==
    /\ pc = "start"
    /\ placeholder \in Placeholders
    /\ op = <<>>
    /\ ret = <<>>
    /\ form = NoForm
    /\ layout = None
    /\ length = 0
    /\ result = None
    /\ answer = FALSE
    /\ again = None
    /\ IdleReader /\ IdleJson /\ IdleWrite /\ IdleConc /\ IdleCollection /\ IdleSample

\* What no operation on the placeholder changes: the object itself, and
\* everything else.
placeholderFrame == <<form, layout, length, result, answer, again, placeholder, readerVars, jsonVars, writeVars, concVars, collectionVars, sampleVars>>

\* placeholder[key]
__getitem__ ==
    /\ pc = "start"
    /\ \E key \in Keys :
          /\ op' = <<"getitem", key>>
          /\ ret' = GetItemOf(placeholder, key)
    /\ pc' = "done"
    /\ UNCHANGED placeholderFrame

\* placeholder[key] = value, lines 78-79
__setitem__ ==
    /\ pc = "start"
    /\ \E key \in Keys :
          /\ op' = <<"setitem", key>>
          /\ ret' = Raised("RuntimeError")
    /\ pc' = "done"
    /\ UNCHANGED placeholderFrame

\* bool(placeholder), lines 81-82
__bool__ ==
    /\ pc = "start"
    /\ op' = <<"bool", NoKey>>
    /\ ret' = Raised("RuntimeError")
    /\ pc' = "done"
    /\ UNCHANGED placeholderFrame

\* int(placeholder), lines 84-85
__int__ ==
    /\ pc = "start"
    /\ op' = <<"int", NoKey>>
    /\ ret' = Raised("RuntimeError")
    /\ pc' = "done"
    /\ UNCHANGED placeholderFrame

\* operator.index(placeholder), lines 87-88
__index__ ==
    /\ pc = "start"
    /\ op' = <<"index", NoKey>>
    /\ ret' = Raised("RuntimeError")
    /\ pc' = "done"
    /\ UNCHANGED placeholderFrame

\* iter(placeholder): the class sets __iter__ to None, so TypeError.
__iter__ ==
    /\ pc = "start"
    /\ op' = <<"iter", NoKey>>
    /\ ret' = Raised("TypeError")
    /\ pc' = "done"
    /\ UNCHANGED placeholderFrame

\* len(placeholder), lines 90-91
__len__ ==
    /\ pc = "start"
    /\ op' = <<"len", NoKey>>
    /\ ret' = Ret("int", placeholder.shape[1], "", <<>>)
    /\ pc' = "done"
    /\ UNCHANGED placeholderFrame

\* placeholder.dtype
Dtype ==
    /\ pc = "start"
    /\ op' = <<"dtype", NoKey>>
    /\ ret' = Ret("dtype", 0, placeholder.dtype, <<>>)
    /\ pc' = "done"
    /\ UNCHANGED placeholderFrame

\* placeholder.ndim
Ndim ==
    /\ pc = "start"
    /\ op' = <<"ndim", NoKey>>
    /\ ret' = Ret("int", Len(placeholder.shape), "", <<>>)
    /\ pc' = "done"
    /\ UNCHANGED placeholderFrame

\* placeholder.shape
Shape ==
    /\ pc = "start"
    /\ op' = <<"shape", NoKey>>
    /\ ret' = Ret("shape", 0, "", placeholder.shape)
    /\ pc' = "done"
    /\ UNCHANGED placeholderFrame

\* placeholder.size
Size ==
    /\ pc = "start"
    /\ op' = <<"size", NoKey>>
    /\ ret' = Ret("int", Product(placeholder.shape), "", <<>>)
    /\ pc' = "done"
    /\ UNCHANGED placeholderFrame

PlaceholderNext ==
    \/ __getitem__ \/ __setitem__ \/ __bool__ \/ __int__ \/ __index__ \/ __iter__
    \/ __len__ \/ Dtype \/ Ndim \/ Shape \/ Size

PlaceholderSpec == PlaceholderInit /\ [][PlaceholderNext]_vars

OpName == op[1]

OpKey == op[2]

ValidSlice == OpKey.kind = "slice" /\ OpKey.step # <<0>>

\* C26: on a placeholder buffer, integer indexing, item assignment, bool(),
\* int(), use as an index and iteration raise; dtype, shape, ndim, size,
\* len and slicing return, and what they return is made of the dtype and
\* the shape alone.
C26_NoValues ==
    pc = "done" =>
        /\ (OpName = "getitem" /\ OpKey.kind = "int") => Failed(ret)
        /\ OpName \in {"setitem", "bool", "int", "index", "iter"} => Failed(ret)
        /\ OpName = "dtype" => ret = Ret("dtype", 0, placeholder.dtype, <<>>)
        /\ OpName = "shape" => ret = Ret("shape", 0, "", placeholder.shape)
        /\ OpName = "ndim" => ret = Ret("int", Len(placeholder.shape), "", <<>>)
        /\ OpName = "size" => ret = Ret("int", Product(placeholder.shape), "", <<>>)
        /\ OpName = "len" => ret = Ret("int", Head(placeholder.shape), "", <<>>)
        /\ (OpName = "getitem" /\ ValidSlice) =>
              /\ ret.kind = "DummyArrayLike"
              /\ ret.dtype = placeholder.dtype
              /\ Len(ret.shape) = 1

\* An integer index into a placeholder that has rows was refused.
C26_Witness ==
    /\ pc = "done"
    /\ OpName = "getitem"
    /\ OpKey.kind = "int"
    /\ OpKey.at \in 0 .. (Head(placeholder.shape) - 1)
    /\ ret = Raised("TypeError")

\* The rows a slice selects from a real array of n rows.
Selected(n, key) ==
    LET ix == slice_indices(key, n)
    IN  {i \in 0 .. (n - 1) :
            /\ \E k \in 0 .. n : i = ix.start + k * ix.step
            /\ IF ix.step > 0 THEN i < ix.stop ELSE i > ix.stop}

SliceCase == pc = "done" /\ OpName = "getitem" /\ ValidSlice

\* C27: slicing a placeholder of n rows, with any start, stop and step
\* that is not zero, returns a placeholder of the same dtype whose length is
\* the number of rows the slice selects from a real array of n rows, and so
\* is never negative.
C27_SliceLength ==
    SliceCase =>
        /\ ret.kind = "DummyArrayLike"
        /\ ret.dtype = placeholder.dtype
        /\ ret.shape[1] = Cardinality(Selected(Head(placeholder.shape), OpKey))
        /\ ret.shape[1] >= 0

\* The same for the slices whose step divides the distance walked.
C27_EvenSlices ==
    LET ix == slice_indices(OpKey, Head(placeholder.shape))
    IN  (SliceCase /\ (ix.stop - ix.start) * ix.step >= 0 /\ FloorDiv(ix.stop - ix.start, ix.step) * ix.step = ix.stop - ix.start) =>
            ret.shape[1] = Cardinality(Selected(Head(placeholder.shape), OpKey))

\* ---------------------------------------------------------------------
\* Collections: from_awkward and .partitions
\* (io.py 271-294, core.py 97-112, 175-193).
\* ---------------------------------------------------------------------

MaxRows == 5

\* int(ceil(a / b)) for a >= 0 and b > 0.
CeilDiv(a, b) == (a + b - 1) \div b

RECURSIVE RangeFrom(_, _, _)
\* list(range(start, stop, step)) for a step above zero.
RangeFrom(start, stop, step) ==
    IF start >= stop THEN <<>> ELSE <<start>> \o RangeFrom(start + step, stop, step)

\* source[start:stop], the rows named by their position in the source.
RowsBetween(start, stop) == [i \in 1 .. (stop - start) |-> start + i - 1]

\* DaskAwkwardArray.__init__ with divisions given, lines 107-109, beside
\* the rows each of its keys computes to.
DaskAwkwardArray(divisions, parts) ==
    [divisions |-> divisions, npartitions |-> Len(divisions) - 1, parts |-> parts, error |-> ""]

\* A call that raised instead of returning a collection.
NoCollection(exc) == [divisions |-> <<>>, npartitions |-> 0, parts |-> <<>>, error |-> exc]

\* from_awkward, lines 271-294.
FromAwkward(nrows, npartitions) ==
    LET chunksize == CeilDiv(nrows, npartitions)
        locs == RangeFrom(0, nrows, chunksize) \o <<nrows>>
    IN  DaskAwkwardArray(locs, [i \in 1 .. (Len(locs) - 1) |-> RowsBetween(locs[i], locs[i + 1])])

\* An index given to .partitions: one integer, a slice, or a list of
\* integers. at holds the integers.
Single(k) == [kind |-> "int", start |-> <<>>, stop |-> <<>>, step |-> <<>>, at |-> <<k>>]

Sliced(start, stop, step) == [kind |-> "slice", start |-> start, stop |-> stop, step |-> step, at |-> <<>>]

Listed(ks) == [kind |-> "list", start |-> <<>>, stop |-> <<>>, step |-> <<>>, at |-> ks]

PartitionBounds == {<<>>} \cup {<<v>> : v \in (0 - MaxRows) .. MaxRows}

PartitionSteps == {<<>>, <<0 - 2>>, <<0 - 1>>, <<1>>, <<2>>}

PartitionNumbers == (0 - 1) .. (MaxRows - 1)

Selections ==
    {Single(k) : k \in PartitionNumbers}
    \cup {Sliced(a, b, c) : a \in PartitionBounds, b \in PartitionBounds, c \in PartitionSteps}
    \cup {Listed(<<j>>) : j \in PartitionNumbers}
    \cup {Listed(<<j, k>>) : j \in PartitionNumbers, k \in PartitionNumbers}

RECURSIVE Walk(_, _, _)
\* The positions range(start, stop, step) walks, for either sign of step.
Walk(start, stop, step) ==
    IF (step > 0 /\ start >= stop) \/ (step < 0 /\ start <= stop) THEN <<>>
    ELSE <<start>> \o Walk(start + step, stop, step)

\* normalize_index's check_index: an integer outside [-n, n) is refused.
InBounds(ks, n) == \A i \in DOMAIN ks : ks[i] < n /\ ks[i] >= 0 - n

\* normalize_index's posify_index: a negative integer counts from the end.
Posify(ks, n) == [i \in DOMAIN ks |-> IF ks[i] < 0 THEN ks[i] + n ELSE ks[i]]

\* The partition numbers np.array(keys)[index] picks, in order; an integer
\* k has become slice(k, k + 1) (lines 181-184).
Picked(index, n) ==
    IF index.kind = "slice"
    THEN LET ix == slice_indices(index, n) IN Walk(ix.start, ix.stop, ix.step)
    ELSE Posify(index.at, n)

\* DaskAwkwardArray._partitions, lines 175-193: the divisions are the old
\* divisions at the partitions picked, and the old division after the last.
PartitionsOf(c, index) ==
    IF index.kind # "slice" /\ ~InBounds(index.at, c.npartitions) THEN NoCollection("IndexError")
    ELSE LET new_keys == Picked(index, c.npartitions)
         IN  IF new_keys = <<>> THEN NoCollection("IndexError")
             ELSE DaskAwkwardArray(
                      [i \in 1 .. (Len(new_keys) + 1) |->
                          IF i <= Len(new_keys) THEN c.divisions[new_keys[i] + 1]
                          ELSE c.divisions[new_keys[Len(new_keys)] + 2]],
                      [i \in DOMAIN new_keys |-> c.parts[new_keys[i] + 1]])

CollectionInit ==
    /\ pc = "start"
    /\ source \in {[nrows |-> n, npartitions |-> k] : n \in 1 .. MaxRows, k \in 1 .. MaxRows}
    /\ source.npartitions <= source.nrows
    /\ collection = <<>>
    /\ selection = <<>>
    /\ selected = <<>>
    /\ form = NoForm
    /\ layout = None
    /\ length = 0
    /\ result = None
    /\ answer = FALSE
    /\ again = None
    /\ IdleReader /\ IdleJson /\ IdleWrite /\ IdleConc /\ IdlePlaceholder /\ IdleSample

collectionFrame == <<form, layout, length, result, answer, again, source, readerVars, jsonVars, writeVars, concVars, placeholderVars, sampleVars>>

\* dak.from_awkward(source, npartitions)
from_awkward ==
    /\ pc = "start"
    /\ collection' = FromAwkward(source.nrows, source.npartitions)
    /\ pc' = "built"
    /\ UNCHANGED <<selection, selected>>
    /\ UNCHANGED collectionFrame

\* collection.partitions[index]
_partitions ==
    /\ pc = "built"
    /\ \E index \in Selections :
          /\ selection' = index
          /\ selected' = PartitionsOf(collection, index)
    /\ pc' = "selected"
    /\ UNCHANGED collection
    /\ UNCHANGED collectionFrame

CollectionNext == from_awkward \/ _partitions

CollectionSpec == CollectionInit /\ [][CollectionNext]_vars

\* The divisions start at 0, end at n and increase, and the partitions are
\* the row ranges between them: every row once, in order.
Covers(c, n) ==
    /\ Len(c.divisions) = Len(c.parts) + 1
    /\ c.divisions[1] = 0
    /\ c.divisions[Len(c.divisions)] = n
    /\ \A i \in DOMAIN c.parts :
          /\ c.divisions[i] < c.divisions[i + 1]
          /\ c.parts[i] = RowsBetween(c.divisions[i], c.divisions[i + 1])

\* C28: from_awkward on n rows with 1 <= npartitions <= n returns a
\* collection of exactly npartitions partitions, whose divisions start at 0,
\* end at n and increase, the partitions being the row ranges between them.
C28_PartitionCount ==
    pc \in {"built", "selected"} =>
        /\ collection.npartitions = source.npartitions
        /\ Len(collection.parts) = source.npartitions
        /\ Covers(collection, source.nrows)

\* What from_awkward does keep: the divisions cover the rows, in at most
\* npartitions partitions.
C28_CoversRows ==
    pc \in {"built", "selected"} =>
        /\ collection.npartitions <= source.npartitions
        /\ collection.npartitions = Len(collection.parts)
        /\ Covers(collection, source.nrows)

Truthful(c) ==
    /\ Len(c.divisions) = Len(c.parts) + 1
    /\ c.npartitions = Len(c.parts)
    /\ \A i \in DOMAIN c.parts : c.divisions[i + 1] - c.divisions[i] = Len(c.parts[i])

\* C29: a selection through .partitions that returns a collection gives one
\* partition per partition picked, divisions with one entry more, and
\* consecutive divisions that differ by the row count of the partition
\* between them.
C29_TruthfulDivisions ==
    (pc = "selected" /\ selected.error = "") =>
        /\ Len(selected.parts) = Len(Picked(selection, collection.npartitions))
        /\ Truthful(selected)

\* The same for one index and for slices of step 1.
C29_Contiguous ==
    (pc = "selected" /\ selected.error = "" /\ (selection.kind = "int" \/ (selection.kind = "slice" /\ selection.step \in {<<>>, <<1>>}))) =>
        /\ Len(selected.parts) = Len(Picked(selection, collection.npartitions))
        /\ Truthful(selected)

\* ---------------------------------------------------------------------
\* derive_json_meta: the rows the metadata is sampled from
\* (lib/io/json.py 150-200, io.py 74-122).
\* ---------------------------------------------------------------------

MaxLines == 4

\* Every line of the source is one JSON object of LineBytes bytes, followed
\* by a newline (the last one only when the file ends with a newline).
LineBytes == 2

\* The bytes of a source of nlines lines.
SourceBytes(nlines, trailing) ==
    IF nlines = 0 THEN 0
    ELSE nlines * (LineBytes + 1) - (IF trailing THEN 0 ELSE 1)

\* What bytes.split(b"\n") of the first bytechunks bytes gives: the whole
\* lines in front of the last newline, and the piece after it, which is
\* empty, a cut line, or a whole line.
SplitChunk(a) ==
    LET got == Smaller(a.bytechunks, SourceBytes(a.nlines, a.trailing))
        whole == got \div (LineBytes + 1)
        rest == got - whole * (LineBytes + 1)
    IN  [whole |-> whole, rest |-> rest]

\* [json.loads(ln) for ln in pieces[:sample_rows]], lines 184-185: the
\* number of rows decoded, or -1 when a piece taken is empty or a cut line
\* and json.loads raises ValueError.
DecodeChunk(a) ==
    LET sp == SplitChunk(a)
    IN  IF a.sample_rows <= sp.whole THEN a.sample_rows
        ELSE IF sp.rest = LineBytes THEN sp.whole + 1
        ELSE 0 - 1

\* Lines 195-200: each line is appended, then `i >= sample_rows` ends the
\* loop.
ReadByLines(a) == Smaller(a.nlines, a.sample_rows + 1)

\* The rows a call sampled, by which path.
Sampled(path, rows) == [path |-> path, rows |-> rows]

\* derive_json_meta after compression was inferred, lines 173-200.
DeriveJsonMeta(a) ==
    IF a.one_obj_per_file THEN Sampled("one_obj", 1)
    ELSE IF ~a.compressed /\ ~a.force_by_lines
    THEN IF DecodeChunk(a) >= 0 THEN Sampled("bytes", DecodeChunk(a))
         ELSE Sampled("fallback", ReadByLines(a))
    ELSE Sampled("lines", ReadByLines(a))

SampleInit ==
    /\ pc = "start"
    /\ sampling \in [nlines : 0 .. MaxLines, trailing : BOOLEAN, bytechunks : 1 .. (MaxLines * (LineBytes + 1)),
                     sample_rows : 1 .. MaxLines, compressed : BOOLEAN, force_by_lines : BOOLEAN, one_obj_per_file : BOOLEAN]
    /\ sampled = <<>>
    /\ form = NoForm
    /\ layout = None
    /\ length = 0
    /\ result = None
    /\ answer = FALSE
    /\ again = None
    /\ IdleReader /\ IdleJson /\ IdleWrite /\ IdleConc /\ IdlePlaceholder /\ IdleCollection

derive_json_meta ==
    /\ pc = "start"
    /\ sampled' = DeriveJsonMeta(sampling)
    /\ pc' = "derived"
    /\ UNCHANGED <<form, layout, length, result, answer, again, sampling>>
    /\ UNCHANGED <<readerVars, jsonVars, writeVars, concVars, placeholderVars, collectionVars>>

SampleNext == derive_json_meta

SampleSpec == SampleInit /\ [][SampleNext]_vars

\* C30: whether the rows are taken from a byte chunk, read line by line, or
\* read line by line after the chunk failed to decode, the call returns
\* metadata, derived from at most sample_rows rows, none of them beyond the
\* source's rows.
C30_AtMostSampleRows ==
    (pc = "derived" /\ sampled.path \in {"bytes", "lines", "fallback"}) =>
        /\ sampled.rows <= sampling.sample_rows
        /\ sampled.rows <= sampling.nlines
        /\ sampled.rows >= 0

\* The byte-chunk path alone keeps to sample_rows.
C30_ChunkPath ==
    (pc = "derived" /\ sampled.path = "bytes") =>
        sampled.rows \in 0 .. Smaller(sampling.sample_rows, sampling.nlines)

\* Read line by line, the call takes one row more whenever the source has it.
C30_ByLines ==
    (pc = "derived" /\ sampled.path \in {"lines", "fallback"}) =>
        sampled.rows = Smaller(sampling.nlines, sampling.sample_rows + 1)

====
